---- MODULE Spec2Model ----
(***************************************************************************)
(* The generation job orchestrator of nano-backend: the dispatch loop      *)
(* (tick), the in-flight guard (activeJobs), the protocol engine           *)
(* (runGeneration and the two provider paths) and the generations table    *)
(* they write through UpdateGeneration.                                    *)
(*                                                                         *)
(* Strings that the code inspects (error messages, provider hosts) are     *)
(* sequences of characters, so that ToLower and Contains are computed as   *)
(* the code computes them.  An ASCII character is the one-character        *)
(* string; any other character is written by its code point ("u8d85").     *)
(***************************************************************************)
EXTENDS Bags, FiniteSets, Integers, Sequences, TLC

VARIABLES
    build,        \* which of the two job-runner sources runs: "coded" | "plain"
    cfg,          \* config.Config: DefaultProviderHost, DefaultProviderAPIKey
    userProvider, \* the user_providers row of the jobs' owner, or NoProvider
    settings,     \* the settings row: ImageTimeoutSeconds, VideoTimeoutSeconds
    rows,         \* the generations table: id -> row
    deleted,      \* ids whose row was removed by DeleteGeneration
    activeJobs,   \* the sync.Map guard: set of ids
    ticks,        \* each tick goroutine: pc, generations listed, loop index
    runs,         \* the engine goroutines (a bag of run records)
    submits,      \* per id: provider submission calls made so far (saturating)
    now,          \* models.Now(), in seconds-sized steps of 1000 ms
    calc          \* a call of a pure function: its name, argument and result

vars == <<build, cfg, userProvider, settings, rows, deleted, activeJobs, ticks,
          runs, submits, now, calc>>

----------------------------------------------------------------------------
(* Bounds of the model *)

MaxJobs == 1
MaxNow == 1
MaxCount == 2
MaxPolls == 1

Ids == 1..MaxJobs
Ticks == {"startup", "ticker"}

----------------------------------------------------------------------------
(* Strings *)

Lower(c) ==
    CASE c = "A" -> "a" [] c = "B" -> "b" [] c = "C" -> "c" [] c = "D" -> "d"
      [] c = "E" -> "e" [] c = "F" -> "f" [] c = "G" -> "g" [] c = "H" -> "h"
      [] c = "I" -> "i" [] c = "J" -> "j" [] c = "K" -> "k" [] c = "L" -> "l"
      [] c = "M" -> "m" [] c = "N" -> "n" [] c = "O" -> "o" [] c = "P" -> "p"
      [] c = "Q" -> "q" [] c = "R" -> "r" [] c = "S" -> "s" [] c = "T" -> "t"
      [] c = "U" -> "u" [] c = "V" -> "v" [] c = "W" -> "w" [] c = "X" -> "x"
      [] c = "Y" -> "y" [] c = "Z" -> "z" [] OTHER -> c

ToLower(s) == [i \in 1..Len(s) |-> Lower(s[i])]

Contains(s, sub) ==
    \E i \in 0..(Len(s) - Len(sub)) :
        \A k \in 1..Len(sub) : s[i + k] = sub[k]

MsgNoKey ==
    <<"u672a", "u914d", "u7f6e", "u63a5", "u53e3", "u5bc6", "u94a5", "uff0c", "u8bf7", "u5728", "u63a5", "u53e3", "u8bbe", "u7f6e", "u4e2d", "u586b", "u5199", "u3002">>
MsgNoTaskID ==
    <<"u7f3a", "u5c11", "u4efb", "u52a1", " ", "I", "D">>
MsgWaitTimeout ==
    <<"u7b49", "u5f85", "u7ed3", "u679c", "u8d85", "u65f6">>
MsgNoResultURL ==
    <<"u672a", "u8fd4", "u56de", "u7ed3", "u679c", "u5730", "u5740">>
MsgDownloadPrefix ==
    <<"u4e0b", "u8f7d", "u5931", "u8d25", "uff1a">>
MsgTaskFailed ==
    <<"u4efb", "u52a1", "u6267", "u884c", "u5931", "u8d25">>
MsgGeminiNoVideo ==
    <<"G", "e", "m", "i", "n", "i", " ", "A", "P", "I", " ", "u6682", "u4e0d", "u652f", "u6301", "u89c6", "u9891", "u751f", "u6210">>
MsgNoGeminiResult ==
    <<"u672a", "u8fd4", "u56de", "u751f", "u6210", "u7ed3", "u679c">>

(* Messages a provider or the transport can hand back *)
MsgHTTP503 ==
    <<"H", "T", "T", "P", " ", "5", "0", "3">>
MsgRefused ==
    <<"c", "o", "n", "n", "e", "c", "t", "i", "o", "n", " ", "r", "e", "f", "u", "s", "e", "d">>

CallErrors == {MsgHTTP503}

HostGRSAI ==
    <<"h", "t", "t", "p", "s", ":", "/", "/", "g", "r", "s", "a", "i", ".", "d", "a", "k", "k", "a", ".", "c", "o", "m", ".", "c", "n">>
HostYunwu ==
    <<"h", "t", "t", "p", "s", ":", "/", "/", "y", "u", "n", "w", "u", ".", "a", "i">>

----------------------------------------------------------------------------
(* Error classifier *)

ErrorCodeInsufficientQuota == "InsufficientQuota"
ErrorCodeInvalidAPIKey == "InvalidAPIKey"
ErrorCodeTimeout == "Timeout"
ErrorCodeNetworkError == "NetworkError"
ErrorCodeInvalidRequest == "InvalidRequest"
ErrorCodeAPIError == "APIError"
ErrorCodeUnsupportedFeature == "UnsupportedFeature"
ErrorCodeUnknown == "Unknown"
NoCode == ""

ErrorCodes ==
    { ErrorCodeInsufficientQuota, ErrorCodeInvalidAPIKey, ErrorCodeTimeout,
      ErrorCodeNetworkError, ErrorCodeInvalidRequest, ErrorCodeAPIError,
      ErrorCodeUnsupportedFeature, ErrorCodeUnknown }

QuotaWords ==
    { <<"i", "n", "s", "u", "f", "f", "i", "c", "i", "e", "n", "t", " ", "q", "u", "o", "t", "a">>,
      <<"q", "u", "o", "t", "a", " ", "f", "a", "i", "l", "e", "d">>,
      <<"u4f59", "u989d", "u4e0d", "u8db3">>,
      <<"u914d", "u989d">> }
KeyWords ==
    { <<"i", "n", "v", "a", "l", "i", "d", " ", "a", "p", "i", " ", "k", "e", "y">>,
      <<"u", "n", "a", "u", "t", "h", "o", "r", "i", "z", "e", "d">>,
      <<"4", "0", "1">>,
      <<"a", "u", "t", "h", "e", "n", "t", "i", "c", "a", "t", "i", "o", "n", " ", "f", "a", "i", "l", "e", "d">> }
TimeoutWords ==
    { <<"t", "i", "m", "e", "o", "u", "t">>,
      <<"u8d85", "u65f6">>,
      <<"t", "i", "m", "e", "d", " ", "o", "u", "t">> }
NetworkWords ==
    { <<"n", "e", "t", "w", "o", "r", "k">>,
      <<"c", "o", "n", "n", "e", "c", "t", "i", "o", "n">>,
      <<"d", "n", "s">>,
      <<"d", "i", "a", "l">> }
RequestWords ==
    { <<"i", "n", "v", "a", "l", "i", "d", " ", "r", "e", "q", "u", "e", "s", "t">>,
      <<"i", "n", "v", "a", "l", "i", "d", " ", "u", "r", "l">>,
      <<"b", "a", "d", " ", "r", "e", "q", "u", "e", "s", "t">>,
      <<"4", "0", "0">> }
APIWords ==
    { <<"a", "p", "i", "u8c03", "u7528", "u5931", "u8d25">>,
      <<"a", "p", "i", " ", "e", "r", "r", "o", "r">>,
      <<"i", "n", "t", "e", "r", "n", "a", "l", " ", "e", "r", "r", "o", "r">>,
      <<"5", "0", "0">>,
      <<"5", "0", "2">>,
      <<"5", "0", "3">> }
UnsupportedWords ==
    { <<"u4e0d", "u652f", "u6301">>,
      <<"n", "o", "t", " ", "s", "u", "p", "p", "o", "r", "t", "e", "d">>,
      <<"u", "n", "s", "u", "p", "p", "o", "r", "t", "e", "d">> }

HasAny(lowerMsg, words) == \E w \in words : Contains(lowerMsg, w)

(* a classifier that looks for the keywords in the message as it is written *)
identifyErrorCodeAsWritten(errMsg) ==
    LET lowerMsg == errMsg IN
    IF HasAny(lowerMsg, QuotaWords) THEN ErrorCodeInsufficientQuota
    ELSE IF HasAny(lowerMsg, KeyWords) THEN ErrorCodeInvalidAPIKey
    ELSE IF HasAny(lowerMsg, TimeoutWords) THEN ErrorCodeTimeout
    ELSE IF HasAny(lowerMsg, NetworkWords) THEN ErrorCodeNetworkError
    ELSE IF HasAny(lowerMsg, RequestWords) THEN ErrorCodeInvalidRequest
    ELSE IF HasAny(lowerMsg, APIWords) THEN ErrorCodeAPIError
    ELSE IF HasAny(lowerMsg, UnsupportedWords) THEN ErrorCodeUnsupportedFeature
    ELSE ErrorCodeUnknown

identifyErrorCode(errMsg) ==
    LET lowerMsg == ToLower(errMsg) IN
    IF HasAny(lowerMsg, QuotaWords) THEN ErrorCodeInsufficientQuota
    ELSE IF HasAny(lowerMsg, KeyWords) THEN ErrorCodeInvalidAPIKey
    ELSE IF HasAny(lowerMsg, TimeoutWords) THEN ErrorCodeTimeout
    ELSE IF HasAny(lowerMsg, NetworkWords) THEN ErrorCodeNetworkError
    ELSE IF HasAny(lowerMsg, RequestWords) THEN ErrorCodeInvalidRequest
    ELSE IF HasAny(lowerMsg, APIWords) THEN ErrorCodeAPIError
    ELSE IF HasAny(lowerMsg, UnsupportedWords) THEN ErrorCodeUnsupportedFeature
    ELSE ErrorCodeUnknown

----------------------------------------------------------------------------
(* The generations table *)

(* The columns CREATE TABLE generations and its ALTER TABLE migrations give *)
Columns ==
    { "id", "userId", "type", "prompt", "model", "status", "progress",
      "startedAt", "elapsedSeconds", "error", "providerTaskId",
      "providerResultUrl", "referenceFileIds", "imageSize", "aspectRatio",
      "favorite", "outputFileId", "createdAt", "updatedAt", "duration",
      "videoSize", "runId", "nodePosition" }

NoText == << >>
NoTask == ""
NoFile == ""
NoURL == ""

(* the provider names each task it accepts anew: the n-th submission's id *)
TaskID(n) == "task-" \o ToString(n)

Terminal == {"succeeded", "failed"}

(* The row a generate handler inserts: status queued, progress 0; a NULL    *)
(* startedAt is 0 (the runner treats nil and 0 alike), a NULL               *)
(* elapsedSeconds is -1.  Of the columns, a row keeps here the ones the     *)
(* runner reads or writes, updatedAt apart, which nothing reads.            *)
CreateGeneration(type) ==
    [ userId |-> "user-1", type |-> type, prompt |-> "a prompt", model |-> "a model",
      status |-> "queued", progress |-> 0, startedAt |-> 0,
      elapsedSeconds |-> -1, error |-> NoText,
      providerTaskId |-> NoTask, providerResultUrl |-> NoURL,
      outputFileId |-> NoFile ]

(* UPDATE generations SET k = ?, ..., updatedAt = ? WHERE id = ?            *)
(* The statement fails as a whole when it names a column the table lacks;   *)
(* it succeeds, changing nothing, when no row has the id.                   *)
UpdateGeneration(tbl, id, updates) ==
    LET all == updates @@ ("updatedAt" :> now)
        set(row, c) == IF c \in DOMAIN all THEN all[c] ELSE row[c]
    IN  IF ~(DOMAIN all \subseteq Columns)
        THEN [err |-> TRUE, rows |-> tbl]
        ELSE IF id \notin DOMAIN tbl
        THEN [err |-> FALSE, rows |-> tbl]
        ELSE [err |-> FALSE,
              rows |-> [tbl EXCEPT ![id] = [c \in DOMAIN tbl[id] |-> set(tbl[id], c)]]]

(* The SELECT has no ORDER BY: SQLite hands the rows out in the order of  *)
(* their insertion, and the ids here number the jobs in that order         *)
RECURSIVE Ascending(_)
Ascending(S) ==
    IF S = {} THEN << >>
    ELSE LET m == CHOOSE x \in S : \A y \in S : x <= y
         IN  <<m>> \o Ascending(S \ {m})

(* The models.Generation value the runner works on: the fields it reads *)
Generation(tbl, id) ==
    [ ID |-> id, Type |-> tbl[id].type, StartedAt |-> tbl[id].startedAt,
      ProviderTaskID |-> tbl[id].providerTaskId ]

(* SELECT id FROM generations WHERE status IN ('queued', 'running') *)
GetPendingGenerations(tbl) ==
    LET ids == Ascending({id \in DOMAIN tbl : tbl[id].status \in {"queued", "running"}})
    IN  [i \in 1..Len(ids) |-> Generation(tbl, ids[i])]

----------------------------------------------------------------------------
(* Provider selection and timeouts *)

NoProvider == [ProviderHost |-> NoText, APIKeyEnc |-> "none"]

(* crypto.DecryptText: the plaintext of a well-formed ciphertext *)
DecryptText(enc) ==
    IF enc = "enc(user-key)" THEN [err |-> FALSE, text |-> "user-key"]
    ELSE [err |-> TRUE, text |-> ""]

getEffectiveProvider ==
    LET host == IF userProvider # NoProvider THEN userProvider.ProviderHost
                ELSE cfg.DefaultProviderHost
        dec == DecryptText(userProvider.APIKeyEnc)
        apiKey == IF userProvider # NoProvider /\ userProvider.APIKeyEnc # ""
                       /\ ~dec.err /\ dec.text # ""
                  THEN dec.text ELSE cfg.DefaultProviderAPIKey
    IN  IF apiKey = "" THEN [err |-> TRUE, host |-> NoText, apiKey |-> ""]
        ELSE [err |-> FALSE, host |-> host, apiKey |-> apiKey]

DefaultTimeoutSeconds == 600
MinTimeoutSeconds == 30
PollSeconds == 2
ErrorLogEvery == 10

(* the settings table: its one row, no row, or a table that cannot be read *)
NoSettingsRow == [row |-> FALSE]

SettingsBroken == [row |-> FALSE, err |-> TRUE]

(* database.GetSettings *)
GetSettings ==
    LET clean(t) == IF t < MinTimeoutSeconds THEN DefaultTimeoutSeconds ELSE t
    IN  IF settings = SettingsBroken THEN [err |-> TRUE]
        ELSE IF settings = NoSettingsRow
        THEN [err |-> FALSE, ImageTimeoutSeconds |-> DefaultTimeoutSeconds,
              VideoTimeoutSeconds |-> DefaultTimeoutSeconds]
        ELSE [err |-> FALSE, ImageTimeoutSeconds |-> clean(settings.ImageTimeoutSeconds),
              VideoTimeoutSeconds |-> clean(settings.VideoTimeoutSeconds)]

(* a resolution that reads the image timeout for every kind of job *)
resolveJobTimeoutImageOnly(genType) ==
    LET got == GetSettings
        t == IF got.err THEN DefaultTimeoutSeconds ELSE got.ImageTimeoutSeconds
    IN  IF t < MinTimeoutSeconds THEN DefaultTimeoutSeconds ELSE t

resolveJobTimeoutSeconds(genType) ==
    LET got == GetSettings
        t == IF got.err THEN DefaultTimeoutSeconds
             ELSE IF genType = "video" THEN got.VideoTimeoutSeconds
             ELSE got.ImageTimeoutSeconds
    IN  IF t < MinTimeoutSeconds THEN DefaultTimeoutSeconds ELSE t

(* Go's integer / and %: the quotient is truncated toward zero *)
Quo(a, b) == IF a >= 0 THEN a \div b ELSE -((-a) \div b)

Rem(a, b) == a - b * Quo(a, b)

(* the attempt budget without the increment for a remainder *)
maxAttemptsTruncated(timeoutSeconds) ==
    LET n == Quo(timeoutSeconds, PollSeconds)
    IN  IF n < 1 THEN 1 ELSE n

maxAttempts(timeoutSeconds) ==
    LET q == Quo(timeoutSeconds, PollSeconds)
        n == IF Rem(timeoutSeconds, PollSeconds) # 0 THEN q + 1 ELSE q
    IN  IF n < 1 THEN 1 ELSE n

GeminiMarks ==
    { <<"y", "u", "n", "w", "u", ".", "a", "i">>,
      <<"g", "e", "m", "i", "n", "i">>,
      <<"g", "o", "o", "g", "l", "e">>,
      <<"m", "o", "d", "e", "l", "v", "e", "r", "s", "e", ".", "c", "n">> }

isGeminiAPI(providerHost) ==
    build = "coded" /\ \E m \in GeminiMarks : Contains(providerHost, m)

----------------------------------------------------------------------------
(* Terminal writes *)

ClockStep == 1000

(* an elapsed time that is not raised to zero *)
resolveElapsedUnclamped(tbl, id) ==
    IF id \notin DOMAIN tbl \/ tbl[id].startedAt = 0 THEN << >>
    ELSE [elapsedSeconds |-> Quo(now - tbl[id].startedAt, ClockStep)]

resolveElapsedSeconds(tbl, id) ==
    IF id \notin DOMAIN tbl \/ tbl[id].startedAt = 0 THEN << >>
    ELSE LET elapsed == Quo(now - tbl[id].startedAt, ClockStep)
         IN  [elapsedSeconds |-> IF elapsed < 0 THEN 0 ELSE elapsed]

updateFailedWithCode(tbl, id, errMsg, errorCode) ==
    LET code == IF errorCode = NoCode THEN identifyErrorCode(errMsg) ELSE errorCode
    IN  UpdateGeneration(tbl, id,
            [status |-> "failed", error |-> errMsg, errorCode |-> code]
                @@ resolveElapsedSeconds(tbl, id))

(* updateFailed of the runner without error codes *)
updateFailedPlain(tbl, id, errMsg) ==
    UpdateGeneration(tbl, id,
        [status |-> "failed", error |-> errMsg] @@ resolveElapsedSeconds(tbl, id))

updateFailed(tbl, id, errMsg) ==
    IF build = "coded" THEN updateFailedWithCode(tbl, id, errMsg, NoCode)
    ELSE updateFailedPlain(tbl, id, errMsg)

(* A failure whose step names its code; the runner without codes calls     *)
(* updateFailed with the same message                                      *)
failWith(tbl, id, errMsg, errorCode) ==
    IF build = "coded" THEN updateFailedWithCode(tbl, id, errMsg, errorCode)
    ELSE updateFailedPlain(tbl, id, errMsg)

(* a succeeded write that also puts the result's URL in place of the prompt *)
updateSucceededOverPrompt(tbl, id, fileID, url) ==
    UpdateGeneration(tbl, id,
        [status |-> "succeeded", progress |-> 100, outputFileId |-> fileID,
         providerResultUrl |-> url, prompt |-> url] @@ resolveElapsedSeconds(tbl, id))

updateSucceeded(tbl, id, fileID, url) ==
    UpdateGeneration(tbl, id,
        [status |-> "succeeded", progress |-> 100, outputFileId |-> fileID,
         providerResultUrl |-> url] @@ resolveElapsedSeconds(tbl, id))

(* a write's result together with the way the run ends on it *)
Failed(res) == [rows |-> res.rows, err |-> res.err, end |-> "failed"]
Succeeded(res) == [rows |-> res.rows, err |-> res.err, end |-> "succeeded"]

(* grsai.TaskResult: Status, Progress, the first result's URL, Error, Message *)
ExtractFirstResultURL(result) == result.URL

(* download: "ok" (bytes fetched and stored) or the error's message *)
handleGRSAISucceeded(tbl, id, result, download) ==
    LET url == ExtractFirstResultURL(result) IN
    IF url = NoURL THEN Failed(failWith(tbl, id, MsgNoResultURL, ErrorCodeAPIError))
    ELSE IF download # NoText
    THEN Failed(failWith(tbl, id, MsgDownloadPrefix \o download, ErrorCodeNetworkError))
    ELSE Succeeded(updateSucceeded(tbl, id, "file", url))

----------------------------------------------------------------------------
(* Initial state: the process has started on the rows an earlier process   *)
(* left, StartJobRunner has launched the ticker goroutine and the startup  *)
(* tick, and the startup tick, the first thing to run, has made its listing *)

(* where a tick stands once it returns, and once it has its listing *)
TickEnd(t) == IF t = "startup" THEN "done" ELSE "idle"

Listed(t, gens) ==
    IF Len(gens) = 0 THEN [pc |-> TickEnd(t), gens |-> << >>, i |-> 0]
    ELSE [pc |-> "loop", gens |-> gens, i |-> 1]

(* the listing returned an error *)
Unlisted == [pc |-> "failed", gens |-> << >>, i |-> 0]

(* The rows an earlier process can have left: none, a job it never         *)
(* dispatched, a job it had started and not yet submitted, a job it had    *)
(* submitted and was polling                                               *)
LeftRows ==
    { CreateGeneration("image"),
      [CreateGeneration("image") EXCEPT !.status = "running", !.startedAt = ClockStep],
      [CreateGeneration("image") EXCEPT !.status = "running", !.startedAt = ClockStep,
                                        !.providerTaskId = TaskID(0)] }

LeftTables == UNION {[S -> LeftRows] : S \in SUBSET Ids}

SystemConfig(key) == [DefaultProviderHost |-> HostGRSAI, DefaultProviderAPIKey |-> key]

Deployment(b, key, provider) ==
    [build |-> b, cfg |-> SystemConfig(key), userProvider |-> provider]

YunwuUser == [ProviderHost |-> HostYunwu, APIKeyEnc |-> "enc(user-key)"]

(* the runner with error codes and the Gemini route, and the runner without *)
Deployments ==
    { Deployment("coded", "system-key", NoProvider),
      Deployment("coded", "", NoProvider),
      Deployment("coded", "system-key", YunwuUser) }

PlainDeployments ==
    { Deployment("plain", "system-key", NoProvider),
      Deployment("plain", "", NoProvider) }

TimeoutSettings == {30}

(* no pure function is being called *)
NoCalc == [fn |-> "none"]

Booted(deployments) ==
    /\ \E d \in deployments :
            build = d.build /\ cfg = d.cfg /\ userProvider = d.userProvider
    /\ \E t \in TimeoutSettings :
            settings = [ImageTimeoutSeconds |-> t, VideoTimeoutSeconds |-> t]
    /\ \E tbl \in LeftTables, err \in BOOLEAN :
        /\ rows = tbl
        /\ ticks = [t \in Ticks |->
                        IF t # "startup" THEN [pc |-> "idle", gens |-> << >>, i |-> 0]
                        ELSE IF err THEN Unlisted
                        ELSE Listed(t, GetPendingGenerations(tbl))]
    /\ deleted = {}
    /\ activeJobs = {}
    /\ runs = EmptyBag
    /\ submits = [id \in Ids |-> 0]
    /\ now = ClockStep
    /\ calc = NoCalc

Init == Booted(Deployments)

InitPlain == Booted(PlainDeployments)

----------------------------------------------------------------------------
(* The collaborators: the generate and delete handlers, the clock *)

Create(id, type) ==
    /\ id \notin DOMAIN rows /\ id \notin deleted
    /\ rows' = rows @@ (id :> CreateGeneration(type))
    /\ UNCHANGED <<calc, build, cfg, userProvider, settings, deleted, activeJobs, ticks,
                   runs, submits, now>>

DeleteGeneration(id) ==
    /\ id \in DOMAIN rows
    /\ rows' = [j \in DOMAIN rows \ {id} |-> rows[j]]
    /\ deleted' = deleted \cup {id}
    /\ UNCHANGED <<calc, build, cfg, userProvider, settings, activeJobs, ticks, runs,
                   submits, now>>

(* Time passes.  Only differences to a startedAt are ever computed, so the  *)
(* clock stands at its origin until a row has one.                         *)
Tock ==
    /\ now < ClockStep * (1 + MaxNow)
    /\ \E id \in DOMAIN rows : rows[id].startedAt # 0
    /\ now' = now + ClockStep
    /\ UNCHANGED <<calc, build, cfg, userProvider, settings, rows, deleted, activeJobs,
                   ticks, runs, submits>>

----------------------------------------------------------------------------
(* tick: the startup goroutine runs it once, the ticker goroutine again and *)
(* again.  pc: idle -> (list) -> loop -> (Load) -> skip | store -> loop ... *)
(* and idle -> (list, err) -> failed -> idle                              *)

Advance(tk, t) ==
    IF tk.i < Len(tk.gens) THEN [tk EXCEPT !.pc = "loop", !.i = tk.i + 1]
    ELSE [pc |-> TickEnd(t), gens |-> << >>, i |-> 0]

(* generations, err := database.GetPendingGenerations() *)
Listing(t, err) ==
    /\ ticks[t].pc = "idle"
    /\ ticks' = [ticks EXCEPT ![t] =
                    IF err THEN Unlisted ELSE Listed(t, GetPendingGenerations(rows))]
    /\ UNCHANGED <<calc, build, cfg, userProvider, settings, rows, deleted, activeJobs,
                   runs, submits, now>>

TickList(t) == \E err \in BOOLEAN : Listing(t, err)

(* a tick whose listing failed and that clears the guard set on its way out *)
TickFailResets(t) ==
    /\ ticks[t].pc = "failed"
    /\ ticks' = [ticks EXCEPT ![t] = Listed(t, << >>)]
    /\ activeJobs' = {}
    /\ UNCHANGED <<calc, build, cfg, userProvider, settings, rows, deleted, runs,
                   submits, now>>

(* if err != nil { log.Printf(...); return } *)
TickFail(t) ==
    /\ ticks[t].pc = "failed"
    /\ ticks' = [ticks EXCEPT ![t] = Listed(t, << >>)]
    /\ UNCHANGED <<calc, build, cfg, userProvider, settings, rows, deleted, activeJobs,
                   runs, submits, now>>

(* a tick that launches whatever it listed, the guard set unread *)
TickLoadBlind(t) ==
    /\ ticks[t].pc = "loop"
    /\ ticks' = [ticks EXCEPT ![t] = [ticks[t] EXCEPT !.pc = "store"]]
    /\ UNCHANGED <<calc, build, cfg, userProvider, settings, rows, deleted, activeJobs,
                   runs, submits, now>>

(* a tick that goes on only once no engine goroutine is left *)
TickLoadWaits(t) ==
    /\ runs = EmptyBag
    /\ ticks[t].pc = "loop"
    /\ ticks' = [ticks EXCEPT ![t] =
                    [ticks[t] EXCEPT !.pc = IF ticks[t].gens[ticks[t].i].ID \in activeJobs
                                            THEN "skip" ELSE "store"]]
    /\ UNCHANGED <<calc, build, cfg, userProvider, settings, rows, deleted, activeJobs,
                   runs, submits, now>>

(* if _, ok := activeJobs.Load(g.ID); ok { continue } *)
TickLoad(t) ==
    LET tk == ticks[t] IN
    /\ tk.pc = "loop"
    /\ ticks' = [ticks EXCEPT ![t] =
                    [tk EXCEPT !.pc = IF tk.gens[tk.i].ID \in activeJobs
                                      THEN "skip" ELSE "store"]]
    /\ UNCHANGED <<calc, build, cfg, userProvider, settings, rows, deleted, activeJobs,
                   runs, submits, now>>

(* continue: the id was found in activeJobs *)
TickSkip(t) ==
    /\ ticks[t].pc = "skip"
    /\ ticks' = [ticks EXCEPT ![t] = Advance(ticks[t], t)]
    /\ UNCHANGED <<calc, build, cfg, userProvider, settings, rows, deleted, activeJobs,
                   runs, submits, now>>

(* end: how runGeneration came to return, once it has ("" before):          *)
(* "failed" through updateFailed or updateFailedWithCode, "succeeded"       *)
(* through the succeeded write, "quiet" with nothing written (the re-read   *)
(* row is terminal or gone), "dberr" with the error of another write        *)
NewRun(g) == [g |-> g, pc |-> "start", attempts |-> 0, end |-> "", err |-> FALSE]

Return(r, end, err) == [r EXCEPT !.pc = "ret", !.end = end, !.err = err]

(* a tick that starts two goroutines for the job it stores *)
TickStoreTwice(t) ==
    LET tk == ticks[t] IN
    /\ tk.pc = "store"
    /\ activeJobs' = activeJobs \cup {tk.gens[tk.i].ID}
    /\ runs' = runs (+) SetToBag({NewRun(tk.gens[tk.i])}) (+) SetToBag({NewRun(tk.gens[tk.i])})
    /\ ticks' = [ticks EXCEPT ![t] = Advance(tk, t)]
    /\ UNCHANGED <<calc, build, cfg, userProvider, settings, rows, deleted, submits, now>>

(* activeJobs.Store(g.ID, true); go func(gen) {...}(g) *)
TickStore(t) ==
    LET tk == ticks[t] IN
    /\ tk.pc = "store"
    /\ activeJobs' = activeJobs \cup {tk.gens[tk.i].ID}
    /\ runs' = runs (+) SetToBag({NewRun(tk.gens[tk.i])})
    /\ ticks' = [ticks EXCEPT ![t] = Advance(tk, t)]
    /\ UNCHANGED <<calc, build, cfg, userProvider, settings, rows, deleted, submits, now>>

----------------------------------------------------------------------------
(* What a provider can answer *)

ResultURL == "https://provider/result.png"

InlineImage == "data:image/png;base64,iVBORw0KGgo="

TaskResult(status, progress, url, error) ==
    [Status |-> status, Progress |-> progress, URL |-> url, Error |-> error,
     Message |-> NoText]

(* GetTaskResult answers without error *)
FetchResults ==
    { TaskResult("running", 0, NoURL, NoText),
      TaskResult("succeeded", 50, ResultURL, NoText),
      TaskResult("succeeded", 0, NoURL, NoText),
      TaskResult("failed", 0, NoURL, MsgHTTP503),
      TaskResult("failed", 0, NoURL, NoText) }

(* A submission response with a status and a non-empty results list:       *)
(* CreateTaskResponse{Finished: true, Result: parseTaskResult(result)}     *)
ImmediateResults ==
    { TaskResult("succeeded", 0, ResultURL, NoText),
      TaskResult("succeeded", 0, NoURL, NoText),
      TaskResult("failed", 0, ResultURL, NoText) }

(* fetchAndStoreRemoteFile: NoText when the file was stored, else the error *)
Downloads == {NoText, MsgRefused}

----------------------------------------------------------------------------
(* runGeneration: one engine goroutine.  pc: start -> nokey | gemini |     *)
(* submit | poll -> fetch -> poll ... -> ret                               *)

Replace(r, r2) == (runs (-) SetToBag({r})) (+) SetToBag({r2})

Bump(id) == [submits EXCEPT ![id] = IF @ < MaxCount THEN @ + 1 ELSE @]

(* a run that submits whether or not the job has a provider task id *)
RouteResubmits(g) ==
    LET p == getEffectiveProvider IN
    IF p.err THEN "nokey"
    ELSE IF isGeminiAPI(p.host) THEN "gemini"
    ELSE "submit"

(* after the status write: credentials, timeout, adapter, submit or poll *)
Route(g) ==
    LET p == getEffectiveProvider IN
    IF p.err THEN "nokey"
    ELSE IF isGeminiAPI(p.host) THEN "gemini"
    ELSE IF g.ProviderTaskID = NoTask THEN "submit"
    ELSE "poll"

(* gen.StartedAt and gen.ProviderTaskID are read here and never again, so  *)
(* the run keeps only gen.ID and gen.Type of its copy afterwards           *)
Started(g) == [g EXCEPT !.StartedAt = 0, !.ProviderTaskID = NoTask]

RunStart(r) ==
    /\ r.pc = "start"
    /\ LET updates == [status |-> "running"]
                        @@ (IF r.g.StartedAt = 0 THEN [startedAt |-> now] ELSE << >>)
           res == UpdateGeneration(rows, r.g.ID, updates)
       IN  /\ rows' = res.rows
           /\ runs' = Replace(r, IF res.err THEN Return(r, "dberr", TRUE)
                                  ELSE [r EXCEPT !.g = Started(r.g), !.pc = Route(r.g)])
    /\ UNCHANGED <<calc, build, cfg, userProvider, settings, deleted, activeJobs, ticks,
                   submits, now>>

RunNoKey(r) ==
    /\ r.pc = "nokey"
    /\ LET res == failWith(rows, r.g.ID, MsgNoKey, ErrorCodeAPIError)
       IN  /\ rows' = res.rows
           /\ runs' = Replace(r, Return(r, "failed", res.err))
    /\ UNCHANGED <<calc, build, cfg, userProvider, settings, deleted, activeJobs, ticks,
                   submits, now>>

(* runGeminiGeneration: no call for a video; else one CreateImageTask call, *)
(* whose answer is an error, a response without an image, or an image      *)
RunGemini(r) ==
    /\ r.pc = "gemini"
    /\ \E res \in
            IF r.g.Type # "image"
            THEN {Failed(failWith(rows, r.g.ID, MsgGeminiNoVideo,
                                  ErrorCodeUnsupportedFeature))}
            ELSE {Failed(updateFailed(rows, r.g.ID, e)) : e \in CallErrors}
                 \cup {Failed(failWith(rows, r.g.ID, MsgNoGeminiResult, ErrorCodeAPIError)),
                       Succeeded(updateSucceeded(rows, r.g.ID, "file", InlineImage))} :
        /\ rows' = res.rows
        /\ runs' = Replace(r, Return(r, res.end, res.err))
    /\ submits' = IF r.g.Type # "image" THEN submits ELSE Bump(r.g.ID)
    /\ UNCHANGED <<calc, build, cfg, userProvider, settings, deleted, activeJobs, ticks, now>>

(* runGRSAIGeneration, g.ProviderTaskID empty: CreateNanoBananaTask or     *)
(* CreateSoraVideoTask, then the failure, the immediate result or the      *)
(* task id is written                                                      *)
(* a run that goes to polling without saving the task id it was given *)
RunSubmitForgets(r) ==
    /\ r.pc = "submit"
    /\ submits' = Bump(r.g.ID)
    /\ rows' = rows
    /\ runs' = Replace(r, [r EXCEPT !.pc = "poll"])
    /\ UNCHANGED <<calc, build, cfg, userProvider, settings, deleted, activeJobs, ticks, now>>

(* the creating call returned an error *)
SubmitError(r, e) ==
    /\ r.pc = "submit"
    /\ submits' = Bump(r.g.ID)
    /\ LET res == updateFailed(rows, r.g.ID, e)
       IN  /\ rows' = res.rows
           /\ runs' = Replace(r, Return(r, "failed", res.err))
    /\ UNCHANGED <<calc, build, cfg, userProvider, settings, deleted, activeJobs, ticks, now>>

(* taskResp.Finished && taskResp.Result != nil *)
SubmitImmediate(r, result, d) ==
    /\ r.pc = "submit"
    /\ submits' = Bump(r.g.ID)
    /\ LET res == handleGRSAISucceeded(rows, r.g.ID, result, d)
       IN  /\ rows' = res.rows
           /\ runs' = Replace(r, Return(r, res.end, res.err))
    /\ UNCHANGED <<calc, build, cfg, userProvider, settings, deleted, activeJobs, ticks, now>>

(* a task id came back: save it, re-read the job *)
SubmitAccepted(r) ==
    /\ r.pc = "submit"
    /\ submits' = Bump(r.g.ID)
    /\ LET res == UpdateGeneration(rows, r.g.ID,
                        [providerTaskId |-> TaskID(submits'[r.g.ID]), progress |-> 0])
       IN  /\ rows' = res.rows
           /\ runs' = Replace(r,
                    IF res.err THEN Return(r, "dberr", TRUE)
                    ELSE IF r.g.ID \notin DOMAIN rows THEN Return(r, "quiet", FALSE)
                    ELSE [r EXCEPT !.pc = "poll"])
    /\ UNCHANGED <<calc, build, cfg, userProvider, settings, deleted, activeJobs, ticks, now>>

RunSubmit(r) ==
    \/ \E e \in CallErrors : SubmitError(r, e)
    \/ \E result \in ImmediateResults, d \in Downloads : SubmitImmediate(r, result, d)
    \/ SubmitAccepted(r)

(* a poll iteration that fetches without looking at the re-read status *)
RunPollBlind(r) ==
    /\ r.pc = "poll"
    /\ LET id == r.g.ID
           exhausted == r.attempts >= maxAttempts(resolveJobTimeoutSeconds(r.g.Type))
           timeout == failWith(rows, id, MsgWaitTimeout, ErrorCodeTimeout)
       IN  IF exhausted
           THEN /\ rows' = timeout.rows
                /\ runs' = Replace(r, Return(r, "failed", timeout.err))
           ELSE /\ rows' = rows
                /\ runs' = Replace(r, [r EXCEPT !.pc = "fetch"])
    /\ UNCHANGED <<calc, build, cfg, userProvider, settings, deleted, activeJobs, ticks,
                   submits, now>>

(* top of a poll iteration: the loop condition, then the re-read *)
RunPoll(r) ==
    /\ r.pc = "poll"
    /\ LET id == r.g.ID
           exhausted == r.attempts >= maxAttempts(resolveJobTimeoutSeconds(r.g.Type))
           gone == id \notin DOMAIN rows
           timeout == failWith(rows, id, MsgWaitTimeout, ErrorCodeTimeout)
           noTask == failWith(rows, id, MsgNoTaskID, ErrorCodeInvalidRequest)
       IN  IF exhausted
           THEN /\ rows' = timeout.rows
                /\ runs' = Replace(r, Return(r, "failed", timeout.err))
           ELSE IF gone \/ rows[id].status \in Terminal
           THEN /\ rows' = rows
                /\ runs' = Replace(r, Return(r, "quiet", FALSE))
           ELSE IF rows[id].providerTaskId = NoTask
           THEN /\ rows' = noTask.rows
                /\ runs' = Replace(r, Return(r, "failed", noTask.err))
           ELSE /\ rows' = rows
                /\ runs' = Replace(r, [r EXCEPT !.pc = "fetch"])
    /\ UNCHANGED <<calc, build, cfg, userProvider, settings, deleted, activeJobs, ticks,
                   submits, now>>

FailedMessage(result) ==
    IF result.Error # NoText THEN result.Error
    ELSE IF result.Message # NoText THEN result.Message
    ELSE MsgTaskFailed

(* client.GetTaskResult on the task id just re-read, and what follows it.  *)
(* The provider leaves a run waiting (a fetch error, a task in progress)   *)
(* on at most polls of its attempts.                                       *)
Again(r) == [r EXCEPT !.pc = "poll", !.attempts = r.attempts + 1]

(* a fetch error that ends the run with the job failed *)
FetchErrorFails(r, e, polls) ==
    /\ r.pc = "fetch"
    /\ r.attempts < polls
    /\ LET res == updateFailed(rows, r.g.ID, e)
       IN  /\ rows' = res.rows
           /\ runs' = Replace(r, Return(r, "failed", res.err))
    /\ UNCHANGED <<calc, build, cfg, userProvider, settings, deleted, activeJobs, ticks,
                   submits, now>>

(* err != nil: the error text on every tenth attempt, the sleep, continue *)
FetchError(r, e, polls) ==
    /\ r.pc = "fetch"
    /\ r.attempts < polls
    /\ rows' = IF r.attempts % ErrorLogEvery = 0
               THEN UpdateGeneration(rows, r.g.ID, [error |-> e]).rows
               ELSE rows
    /\ runs' = Replace(r, Again(r))
    /\ UNCHANGED <<calc, build, cfg, userProvider, settings, deleted, activeJobs, ticks,
                   submits, now>>

(* a result: the progress write, then succeeded, failed or the sleep *)
FetchAnswer(r, result, d, polls) ==
    /\ r.pc = "fetch"
    /\ LET id == r.g.ID
           tbl == IF result.Progress > 0
                  THEN UpdateGeneration(rows, id, [progress |-> result.Progress]).rows
                  ELSE rows
           done == IF result.Status = "succeeded"
                   THEN handleGRSAISucceeded(tbl, id, result, d)
                   ELSE Failed(updateFailed(tbl, id, FailedMessage(result)))
       IN  IF result.Status \in Terminal
           THEN /\ rows' = done.rows
                /\ runs' = Replace(r, Return(r, done.end, done.err))
           ELSE /\ r.attempts < polls
                /\ rows' = tbl
                /\ runs' = Replace(r, Again(r))
    /\ UNCHANGED <<calc, build, cfg, userProvider, settings, deleted, activeJobs, ticks,
                   submits, now>>

RunFetchUpTo(r, polls) ==
    \/ \E e \in CallErrors : FetchError(r, e, polls)
    \/ \E result \in FetchResults, d \in Downloads : FetchAnswer(r, result, d, polls)

RunFetch(r) == RunFetchUpTo(r, MaxPolls)

(* a goroutine that returns and leaves its id in activeJobs *)
RunReturnKeep(r) ==
    /\ r.pc = "ret"
    /\ runs' = runs (-) SetToBag({r})
    /\ UNCHANGED <<calc, build, cfg, userProvider, settings, rows, deleted, activeJobs,
                   ticks, submits, now>>

(* runGeneration has returned: defer activeJobs.Delete(gen.ID) *)
RunReturn(r) ==
    /\ r.pc = "ret"
    /\ runs' = runs (-) SetToBag({r})
    /\ activeJobs' = activeJobs \ {r.g.ID}
    /\ UNCHANGED <<calc, build, cfg, userProvider, settings, rows, deleted, ticks,
                   submits, now>>

----------------------------------------------------------------------------

JobTypes == {"image", "video"}

Live == BagToSet(runs)

Next ==
    \/ \E id \in Ids, type \in JobTypes : Create(id, type)
    \/ \E id \in Ids : DeleteGeneration(id)
    \/ Tock
    \/ \E t \in Ticks : TickList(t)
    \/ \E t \in Ticks : TickFail(t)
    \/ \E t \in Ticks : TickLoad(t)
    \/ \E t \in Ticks : TickSkip(t)
    \/ \E t \in Ticks : TickStore(t)
    \/ \E r \in Live : RunStart(r)
    \/ \E r \in Live : RunNoKey(r)
    \/ \E r \in Live : RunGemini(r)
    \/ \E r \in Live : RunSubmit(r)
    \/ \E r \in Live : RunPoll(r)
    \/ \E r \in Live : RunFetch(r)
    \/ \E r \in Live : RunReturn(r)

Spec == Init /\ [][Next]_vars

NextPlain ==
    \/ \E id \in Ids, type \in JobTypes : Create(id, type)
    \/ \E id \in Ids : DeleteGeneration(id)
    \/ Tock
    \/ \E t \in Ticks : TickList(t)
    \/ \E t \in Ticks : TickFail(t)
    \/ \E t \in Ticks : TickLoad(t)
    \/ \E t \in Ticks : TickSkip(t)
    \/ \E t \in Ticks : TickStore(t)
    \/ \E r \in Live : RunStart(r)
    \/ \E r \in Live : RunNoKey(r)
    \/ \E r \in Live : RunSubmit(r)
    \/ \E r \in Live : RunPoll(r)
    \/ \E r \in Live : RunFetch(r)
    \/ \E r \in Live : RunReturn(r)

SpecPlain == InitPlain /\ [][NextPlain]_vars

(* Ticks one after another: a tick makes its listing only when no other    *)
(* tick is between its listing and its return                              *)
Sequential(t) == \A u \in Ticks \ {t} : ticks[u].pc \in {"idle", "done"}

NextSeq ==
    \/ \E id \in Ids, type \in JobTypes : Create(id, type)
    \/ \E id \in Ids : DeleteGeneration(id)
    \/ Tock
    \/ \E t \in Ticks : Sequential(t) /\ TickList(t)
    \/ \E t \in Ticks : TickFail(t)
    \/ \E t \in Ticks : TickLoad(t)
    \/ \E t \in Ticks : TickSkip(t)
    \/ \E t \in Ticks : TickStore(t)
    \/ \E r \in Live : RunStart(r)
    \/ \E r \in Live : RunNoKey(r)
    \/ \E r \in Live : RunGemini(r)
    \/ \E r \in Live : RunSubmit(r)
    \/ \E r \in Live : RunPoll(r)
    \/ \E r \in Live : RunFetch(r)
    \/ \E r \in Live : RunReturn(r)

SpecSeq == Init /\ [][NextSeq]_vars

(* Scheduling: the ticker fires every three seconds, the listing does not  *)
(* fail for ever and a tick's loop runs                                    *)
(* on, the Go scheduler runs every engine goroutine, every provider and    *)
(* database call returns                                                   *)
RunStep(id) ==
    \E r \in Live :
        /\ r.g.ID = id
        /\ \/ RunStart(r) \/ RunNoKey(r) \/ RunGemini(r) \/ RunSubmit(r)
           \/ RunPoll(r) \/ RunFetch(r) \/ RunReturn(r)

Fairness ==
    /\ \A t \in Ticks :
        /\ SF_vars(Listing(t, FALSE)) /\ WF_vars(TickFail(t)) /\ WF_vars(TickLoad(t))
        /\ WF_vars(TickSkip(t)) /\ WF_vars(TickStore(t))
    /\ \A id \in Ids : WF_vars(RunStep(id))

FairSpec == Spec /\ Fairness

----------------------------------------------------------------------------
(* What the properties speak of *)

Pending == {"queued", "running"}

(* the engine goroutines of a job, and those of them still in runGeneration *)
RunsOf(bag, id) ==
    BagCardinality([r \in {x \in BagToSet(bag) : x.g.ID = id} |-> bag[r]])

Executing(id) ==
    BagCardinality([r \in {x \in Live : x.g.ID = id /\ x.pc # "ret"} |-> runs[r]])

(* the errorCode a row holds: none where the table has no such column *)
ErrorCodeOf(row) == IF "errorCode" \in DOMAIN row THEN row.errorCode ELSE NoCode

Kept(id) == id \in DOMAIN rows /\ id \in DOMAIN rows'

----------------------------------------------------------------------------
(* C1: once a job's persisted status is succeeded or failed, no write of a *)
(* tick or of an engine run changes that status again, the status write    *)
(* at the start of a run included.                                         *)
C1_TerminalStatusStays ==
    [][\A id \in Ids :
        (Kept(id) /\ rows[id].status \in Terminal) =>
            rows'[id].status = rows[id].status]_vars

(* C2: in every reachable state, whatever the interleaving of the startup  *)
(* tick, the ticker's ticks and the runs, at most one engine goroutine is  *)
(* executing runGeneration for a job.                                     *)
C2_OneRunPerJob == \A id \in Ids : Executing(id) <= 1

(* C3: with ticks that run one after another, a tick launches no run for a *)
(* job that an earlier tick's run, not yet returned, is still working on:  *)
(* a run is launched for a job only when the job has none.                 *)
C3_SecondTickLaunchesNothing ==
    [][\A id \in Ids :
        RunsOf(runs', id) > RunsOf(runs, id) => RunsOf(runs, id) = 0]_vars

(* a later tick has found the id of a pending job in the guard set and     *)
(* passes it over while the job's run is still in runGeneration            *)
C3_Witness ==
    \E id \in DOMAIN rows :
        /\ ticks["ticker"].pc = "skip"
        /\ ticks["ticker"].gens[ticks["ticker"].i].ID = id
        /\ ticks["startup"].pc = "done"
        /\ rows[id].status \in Pending
        /\ Executing(id) = 1

(* C4: every job whose persisted status is succeeded has a non-empty       *)
(* outputFileId and an empty error, also when a transient poll error was   *)
(* recorded on the row before.                                            *)
C4_SucceededHasFileAndNoError ==
    \A id \in DOMAIN rows :
        rows[id].status = "succeeded" =>
            rows[id].outputFileId # NoFile /\ rows[id].error = NoText

(* C5: every job whose persisted status is failed has a non-empty error    *)
(* and an errorCode that is one of the eight taxonomy values.              *)
C5_FailedHasErrorAndCode ==
    \A id \in DOMAIN rows :
        rows[id].status = "failed" =>
            rows[id].error # NoText /\ ErrorCodeOf(rows[id]) \in ErrorCodes

(* C6: every job whose persisted status is failed has an empty             *)
(* outputFileId.                                                          *)
C6_FailedHasNoFile ==
    \A id \in DOMAIN rows :
        rows[id].status = "failed" => rows[id].outputFileId = NoFile

(* C7: whenever a run detects a failure that is not a transient poll-fetch *)
(* error, it ends with the job's persisted status failed, its error and    *)
(* its errorCode set, so that no tick lists the job again.                 *)
C7_FailureIsPersisted ==
    [][\A r \in BagToSet(runs') :
        (r.end = "failed" /\ CopiesIn(r, runs') > CopiesIn(r, runs)
                          /\ r.g.ID \in DOMAIN rows') =>
            /\ rows'[r.g.ID].status = "failed"
            /\ rows'[r.g.ID].error # NoText
            /\ ErrorCodeOf(rows'[r.g.ID]) \in ErrorCodes]_vars

(* C8: a job's providerTaskId is written at most once: once non-empty it   *)
(* never changes.                                                         *)
C8_TaskIdWrittenOnce ==
    [][\A id \in Ids :
        (Kept(id) /\ rows[id].providerTaskId # NoTask) =>
            rows'[id].providerTaskId = rows[id].providerTaskId]_vars

(* C9: within one process lifetime the provider's submission call is made  *)
(* at most once for a job.                                                *)
C9_SubmittedAtMostOnce == \A id \in Ids : submits[id] <= 1

(* C10: under fair scheduling every queued job that is not deleted         *)
(* eventually has the persisted status succeeded or failed.                *)
C10_QueuedEndsTerminal ==
    \A id \in Ids :
        (id \in DOMAIN rows /\ rows[id].status = "queued")
            ~> (id \notin DOMAIN rows \/ rows[id].status \in Terminal)

(* C11: an id is in the guard set only while an engine goroutine launched  *)
(* for it has not yet returned, and the step in which an engine goroutine  *)
(* returns, however its run ended, leaves its id out of the guard set: no  *)
(* guard entry outlives its run.                                           *)
C11_GuardLivesWithItsRun ==
    /\ [](\A id \in activeJobs : RunsOf(runs, id) >= 1)
    /\ [][\A id \in Ids :
            RunsOf(runs', id) < RunsOf(runs, id) => id \notin activeJobs']_vars

(* a run that made its submission has returned: the job has no goroutine   *)
(* and no guard entry, and its row is still pending, open to a later tick  *)
C11_Witness ==
    \E id \in DOMAIN rows :
        /\ submits[id] >= 1
        /\ RunsOf(runs, id) = 0
        /\ id \notin activeJobs
        /\ rows[id].status \in Pending

(* C12: a tick whose listing of the pending generations fails returns      *)
(* having changed nothing: from the failed listing to its return no row is *)
(* written, the guard set is as it was and no engine run is launched, so   *)
(* the rows a later listing finds are the same.                            *)
C12_FailedListingTouchesNothing ==
    [][\A t \in Ticks :
        (ticks'[t].pc = "failed" \/ ticks[t].pc = "failed") /\ ticks'[t] # ticks[t] =>
            /\ rows' = rows /\ activeJobs' = activeJobs /\ runs' = runs
            /\ ticks'[t].gens = << >>
            /\ ticks[t].pc = "failed" => ticks'[t].pc = TickEnd(t)]_vars

(* the ticker's listing has failed while a job is pending and a run holds *)
(* a guard entry                                                          *)
C12_Witness ==
    /\ ticks["ticker"].pc = "failed"
    /\ activeJobs # {}
    /\ \E id \in DOMAIN rows : rows[id].status \in Pending

----------------------------------------------------------------------------
(* Engine runs that never return: every run makes its first write and then *)
(* stays in its provider call or its poll sleep for ever.  One job more    *)
(* than elsewhere, so that a tick meets a job beside the blocked one.      *)
BlockedIds == 1..(MaxJobs + 1)

InTick(t) == ticks[t].pc \in {"failed", "loop", "skip", "store"}

NextBlocked ==
    \/ \E id \in BlockedIds, type \in JobTypes : Create(id, type)
    \/ \E id \in BlockedIds : DeleteGeneration(id)
    \/ Tock
    \/ \E t \in Ticks : TickList(t)
    \/ \E t \in Ticks : TickFail(t)
    \/ \E t \in Ticks : TickLoad(t)
    \/ \E t \in Ticks : TickSkip(t)
    \/ \E t \in Ticks : TickStore(t)
    \/ \E r \in Live : RunStart(r)

TickFairness ==
    \A t \in Ticks :
        /\ SF_vars(Listing(t, FALSE)) /\ WF_vars(TickFail(t)) /\ WF_vars(TickLoad(t))
        /\ WF_vars(TickSkip(t)) /\ WF_vars(TickStore(t))

SpecBlocked == Init /\ [][NextBlocked]_vars /\ TickFairness

(* C13: tick never waits for an engine run.  With runs that never return,  *)
(* every tick that has begun comes to its end, and every pending job       *)
(* without a run gets one launched by a later tick (or stops being         *)
(* pending by deletion), whatever other runs are blocked.                  *)
C13_TickNeverWaits ==
    /\ \A t \in Ticks : InTick(t) ~> ~InTick(t)
    /\ \A id \in BlockedIds :
        (id \in DOMAIN rows /\ rows[id].status \in Pending /\ RunsOf(runs, id) = 0)
            ~> (RunsOf(runs, id) >= 1 \/ id \notin DOMAIN rows)

(* a run is blocked past its first write, the ticker has since launched a  *)
(* run for another job and has returned                                    *)
C13_Witness ==
    \E r1 \in Live, r2 \in Live :
        /\ r1.g.ID # r2.g.ID
        /\ r1.pc # "start"
        /\ ticks["ticker"].pc = "idle"
        /\ ticks["startup"].pc = "done"

(* the ticker goroutine alone keeps going: nothing is assumed of the runs *)
TickerFairness ==
    /\ SF_vars(Listing("ticker", FALSE)) /\ WF_vars(TickFail("ticker"))
    /\ WF_vars(TickLoad("ticker")) /\ WF_vars(TickSkip("ticker"))
    /\ WF_vars(TickStore("ticker"))

SpecTicker == Spec /\ TickerFairness

(* the runs of job id that a step takes away, and those it puts in *)
Ended(id) == {r \in BagToSet(runs) : r.g.ID = id /\ CopiesIn(r, runs') < CopiesIn(r, runs)}

Begun(id) == {r \in BagToSet(runs') : r.g.ID = id /\ CopiesIn(r, runs') > CopiesIn(r, runs)}

C15_GeminiVideoFailsUnsupported ==
    [][\A id \in Ids : \A r \in Ended(id) :
        (r.pc = "gemini" /\ r.g.Type = "video" /\ id \in DOMAIN rows') =>
            /\ rows'[id].status = "failed"
            /\ ErrorCodeOf(rows'[id]) = ErrorCodeUnsupportedFeature
            /\ submits' = submits]_vars

----------------------------------------------------------------------------
(* Calls of the pure functions on their own: the runner is at rest, calc   *)
(* holds an argument and, after the call, the result                       *)

AtRest ==
    /\ build = "coded"
    /\ cfg = SystemConfig("system-key")
    /\ userProvider = NoProvider
    /\ settings = [ImageTimeoutSeconds |-> MinTimeoutSeconds,
                   VideoTimeoutSeconds |-> MinTimeoutSeconds]
    /\ rows = << >>
    /\ ticks = [t \in Ticks |-> [pc |-> TickEnd(t), gens |-> << >>, i |-> 0]]
    /\ deleted = {}
    /\ activeJobs = {}
    /\ runs = EmptyBag
    /\ submits = [id \in Ids |-> 0]
    /\ now = ClockStep

Call(fn, arg) == [fn |-> fn, pc |-> "call", arg |-> arg]

Returned(fn, out) == [calc EXCEPT !.pc = "done"] @@ [out |-> out]

Done(fn) == calc.fn = fn /\ calc.pc = "done"

(* the timeouts a call of maxAttempts is given: every integer up to the    *)
(* bound, the negative ones included                                       *)
MaxTimeoutSeconds == 601

TimeoutInputs == (0 - MaxTimeoutSeconds)..MaxTimeoutSeconds

InitAttempts == AtRest /\ \E t \in TimeoutInputs : calc = Call("maxAttempts", t)

ComputeAttempts ==
    /\ calc.fn = "maxAttempts" /\ calc.pc = "call"
    /\ calc' = Returned("maxAttempts", maxAttempts(calc.arg))
    /\ UNCHANGED <<build, cfg, userProvider, settings, rows, deleted, activeJobs, ticks,
                   runs, submits, now>>

NextAttempts == ComputeAttempts

SpecAttempts == InitAttempts /\ [][NextAttempts]_vars

(* C16: maxAttempts is the larger of 1 and the least integer n with        *)
(* 2 * n >= timeoutSeconds, for every integer timeoutSeconds; 601 gives    *)
(* 301 and 30 gives 15.                                                    *)
C16_MaxAttemptsIsCeilOfHalf ==
    Done("maxAttempts") =>
        LET t == calc.arg
            ceil == CHOOSE n \in TimeoutInputs : 2 * n >= t /\ 2 * (n - 1) < t
        IN  /\ calc.out = IF ceil > 1 THEN ceil ELSE 1
            /\ t = 601 => calc.out = 301
            /\ t = 30 => calc.out = 15

(* the call with 601 seconds has returned 301 *)
C16_Witness == Done("maxAttempts") /\ calc.arg = 601 /\ calc.out = 301

----------------------------------------------------------------------------
(* Long polls: the provider leaves a run waiting through its whole attempt *)
(* budget.  The jobs are those an earlier process left; none is created or *)
(* deleted meanwhile.                                                      *)
LongPolls == 15

NextPolling ==
    \/ Tock
    \/ \E t \in Ticks : Sequential(t) /\ TickList(t)
    \/ \E t \in Ticks : TickFail(t)
    \/ \E t \in Ticks : TickLoad(t)
    \/ \E t \in Ticks : TickSkip(t)
    \/ \E t \in Ticks : TickStore(t)
    \/ \E r \in Live : RunStart(r)
    \/ \E r \in Live : RunNoKey(r)
    \/ \E r \in Live : RunGemini(r)
    \/ \E r \in Live : RunSubmit(r)
    \/ \E r \in Live : RunPoll(r)
    \/ \E r \in Live : RunFetchUpTo(r, LongPolls)
    \/ \E r \in Live : RunReturn(r)

SpecPolling == Init /\ [][NextPolling]_vars

Budget(r) == maxAttempts(resolveJobTimeoutSeconds(r.g.Type))

(* attempts counts the fetch calls made; at "fetch" one more is under way *)
WithinBudget ==
    \A r \in Live : r.attempts <= Budget(r) /\ (r.pc = "fetch" => r.attempts < Budget(r))

(* C17: a run makes at most maxAttempts fetch calls, and a run that has    *)
(* used them all while its job is still not terminal ends with the job     *)
(* persisted as failed with the timeout errorCode.                         *)
C17_ExhaustedBudgetFailsWithTimeout ==
    /\ []WithinBudget
    /\ [][\A id \in Ids : \A r \in Ended(id) :
            (r.pc = "poll" /\ r.attempts >= Budget(r) /\ Kept(id)
                           /\ rows[id].status \notin Terminal) =>
                /\ rows'[id].status = "failed"
                /\ ErrorCodeOf(rows'[id]) = ErrorCodeTimeout]_vars

(* C18: a fetch call that returns an error leaves the job's status as it   *)
(* was and not terminal, and the run goes on with its next attempt; it     *)
(* writes the error text, and nothing else, exactly when the attempt index *)
(* is a multiple of ten.                                                   *)
C18_FetchErrorIsAbsorbed ==
    [][\A r \in Live, e \in CallErrors :
        FetchError(r, e, LongPolls) =>
            LET id == r.g.ID IN
            /\ DOMAIN rows' = DOMAIN rows
            /\ CopiesIn(Again(r), runs') = CopiesIn(Again(r), runs) + 1
            /\ id \in DOMAIN rows =>
                /\ rows'[id].status = rows[id].status
                /\ rows'[id].status \notin Terminal
                /\ rows'[id] = IF r.attempts % 10 = 0 THEN [rows[id] EXCEPT !.error = e]
                               ELSE rows[id]]_vars

(* a run is past its eleventh attempt, the text of a fetch error is in the *)
(* running job's error field                                               *)
C18_Witness ==
    \E r \in Live :
        /\ r.pc = "poll" /\ r.attempts = 11
        /\ r.g.ID \in DOMAIN rows
        /\ rows[r.g.ID].status = "running"
        /\ rows[r.g.ID].error = MsgHTTP503

----------------------------------------------------------------------------
(* identifyErrorCode on its own: messages of up to MaxFragments fragments, *)
(* in the letter case a provider or the transport writes them              *)
MaxFragments == 2

FragInvalidKey ==
    <<"I", "n", "v", "a", "l", "i", "d", " ", "A", "P", "I", " ", "K", "e", "y">>
FragQuotaFailed ==
    <<"Q", "U", "O", "T", "A", " ", "F", "A", "I", "L", "E", "D">>
FragTimedOut ==
    <<"r", "e", "q", "u", "e", "s", "t", " ", "T", "i", "m", "e", "d", " ", "O", "u", "t">>
FragBadRequest ==
    <<"B", "a", "d", " ", "R", "e", "q", "u", "e", "s", "t">>
FragNotSupported ==
    <<"N", "o", "t", " ", "S", "u", "p", "p", "o", "r", "t", "e", "d">>
FragOops ==
    <<"o", "o", "p", "s">>

Fragments ==
    { FragInvalidKey, FragQuotaFailed, FragTimedOut, FragBadRequest, FragNotSupported,
      FragOops, MsgRefused, MsgHTTP503, MsgWaitTimeout, MsgGeminiNoVideo, MsgTaskFailed }

RECURSIVE Phrases(_)
Phrases(n) ==
    IF n = 0 THEN {<< >>}
    ELSE Phrases(n - 1)
            \cup {IF p = << >> THEN f ELSE p \o <<" ">> \o f :
                        p \in Phrases(n - 1), f \in Fragments}

InitClassify == AtRest /\ \E m \in Phrases(MaxFragments) : calc = Call("identifyErrorCode", m)

ComputeClassify ==
    /\ calc.fn = "identifyErrorCode" /\ calc.pc = "call"
    /\ calc' = Returned("identifyErrorCode", identifyErrorCode(calc.arg))
    /\ UNCHANGED <<build, cfg, userProvider, settings, rows, deleted, activeJobs, ticks,
                   runs, submits, now>>

NextClassify == ComputeClassify

SpecClassify == InitClassify /\ [][NextClassify]_vars

(* the categories in the order the classifier tries them *)
Categories ==
    << [words |-> QuotaWords, code |-> ErrorCodeInsufficientQuota],
       [words |-> KeyWords, code |-> ErrorCodeInvalidAPIKey],
       [words |-> TimeoutWords, code |-> ErrorCodeTimeout],
       [words |-> NetworkWords, code |-> ErrorCodeNetworkError],
       [words |-> RequestWords, code |-> ErrorCodeInvalidRequest],
       [words |-> APIWords, code |-> ErrorCodeAPIError],
       [words |-> UnsupportedWords, code |-> ErrorCodeUnsupportedFeature] >>

(* sub occurs in s when letter case is ignored *)
ContainsFold(s, sub) ==
    \E i \in 0..(Len(s) - Len(sub)) :
        \A k \in 1..Len(sub) : Lower(s[i + k]) = Lower(sub[k])

Matching(msg) ==
    {i \in DOMAIN Categories : \E w \in Categories[i].words : ContainsFold(msg, w)}

(* C19: identifyErrorCode answers every message with one of the eight      *)
(* codes: the code of the first category, in the order quota, invalid key, *)
(* timeout, network, invalid request, API error, unsupported, that has a   *)
(* keyword occurring in the message with letter case ignored, and unknown  *)
(* when no category has one.  "Invalid API Key" gives invalid key,         *)
(* "connection refused" network, "HTTP 503" API error.                     *)
C19_FirstMatchingCategoryWins ==
    Done("identifyErrorCode") =>
        LET msg == calc.arg
            hit == Matching(msg)
        IN  /\ calc.out \in ErrorCodes
            /\ hit = {} => calc.out = ErrorCodeUnknown
            /\ hit # {} =>
                    calc.out = Categories[CHOOSE i \in hit : \A j \in hit : i <= j].code
            /\ msg = FragInvalidKey => calc.out = ErrorCodeInvalidAPIKey
            /\ msg = MsgRefused => calc.out = ErrorCodeNetworkError
            /\ msg = MsgHTTP503 => calc.out = ErrorCodeAPIError

(* a message with a timeout keyword before a quota keyword in mixed case   *)
(* has been classified as quota                                            *)
C19_Witness ==
    /\ Done("identifyErrorCode")
    /\ calc.arg = FragTimedOut \o <<" ">> \o FragQuotaFailed
    /\ calc.out = ErrorCodeInsufficientQuota

----------------------------------------------------------------------------
(* parseSSEResponse on its own.  A line of the response is its field name  *)
(* ("data", another name, or none for a blank line) and what follows the   *)
(* colon; a JSON text is an object with its members, null, or a text that  *)
(* json.Unmarshal refuses for a map (an array, a broken object).           *)
MaxLines == 3

JString(s) == [type |-> "string", val |-> s]

JNumber == [type |-> "number", val |-> "1"]

Object(members) == [json |-> "object", members |-> members]

JNull == [json |-> "null"]

JBroken == [json |-> "broken"]

NoPayload == [json |-> "empty"]

Record(status, id) == Object([status |-> JString(status), id |-> JString(id)])

Payloads ==
    { Record("running", "a"), Record("running", "b"),
      Record("succeeded", "a"), Record("succeeded", "b"),
      Record("failed", "a"),
      Object([id |-> JString("a")]),
      Object([status |-> JNumber, id |-> JString("a")]),
      JNull, JBroken, NoPayload }

DataLine(payload) == [field |-> "data", payload |-> payload]

SSELines ==
    {DataLine(p) : p \in Payloads}
        \cup { [field |-> "event", payload |-> Record("succeeded", "b")],
               [field |-> "", payload |-> NoPayload] }

RECURSIVE Streams(_)
Streams(n) ==
    IF n = 0 THEN {<< >>}
    ELSE Streams(n - 1) \cup {Append(s, l) : s \in Streams(n - 1), l \in SSELines}

(* a nil map[string]interface{}, and a map with its entries *)
NilMap == [nil |-> TRUE]

Map(members) == [nil |-> FALSE, members |-> members]

(* json.Unmarshal([]byte(jsonStr), &data) with data a nil map: null leaves *)
(* it nil and is no error                                                  *)
Unmarshal(payload) ==
    IF payload.json = "object" THEN [err |-> FALSE, data |-> Map(payload.members)]
    ELSE IF payload.json = "null" THEN [err |-> FALSE, data |-> NilMap]
    ELSE [err |-> TRUE, data |-> NilMap]

(* status, ok := data["status"].(string); status is succeeded or failed *)
Completed(data) ==
    /\ ~data.nil
    /\ "status" \in DOMAIN data.members
    /\ data.members.status.type = "string"
    /\ data.members.status.val \in {"succeeded", "failed"}

(* a parser that answers with the last record it could parse *)
RECURSIVE ScanLast(_, _, _, _)
ScanLast(lines, i, lastResult, completedResult) ==
    IF i > Len(lines) THEN lastResult
    ELSE LET line == lines[i]
             u == Unmarshal(line.payload)
         IN  IF line.field # "data" \/ line.payload = NoPayload \/ u.err
             THEN ScanLast(lines, i + 1, lastResult, completedResult)
             ELSE ScanLast(lines, i + 1, u.data, completedResult)

RECURSIVE Scan(_, _, _, _)
Scan(lines, i, lastResult, completedResult) ==
    IF i > Len(lines)
    THEN IF completedResult # NilMap THEN completedResult ELSE lastResult
    ELSE LET line == lines[i]
             u == Unmarshal(line.payload)
         IN  IF line.field # "data" \/ line.payload = NoPayload \/ u.err
             THEN Scan(lines, i + 1, lastResult, completedResult)
             ELSE Scan(lines, i + 1, u.data,
                       IF Completed(u.data) THEN u.data ELSE completedResult)

parseSSEResponse(lines) == Scan(lines, 1, NilMap, NilMap)

InitSSE == AtRest /\ \E s \in Streams(MaxLines) : calc = Call("parseSSEResponse", s)

ComputeSSE ==
    /\ calc.fn = "parseSSEResponse" /\ calc.pc = "call"
    /\ calc' = Returned("parseSSEResponse", parseSSEResponse(calc.arg))
    /\ UNCHANGED <<build, cfg, userProvider, settings, rows, deleted, activeJobs, ticks,
                   runs, submits, now>>

NextSSE == ComputeSSE

SpecSSE == InitSSE /\ [][NextSSE]_vars

(* the lines whose record parses: data lines with a JSON text that         *)
(* json.Unmarshal accepts                                                  *)
Parses(line) ==
    line.field = "data" /\ line.payload # NoPayload /\ ~Unmarshal(line.payload).err

Last(S) == CHOOSE i \in S : \A j \in S : j <= i

Stream(records) == [i \in 1..Len(records) |-> DataLine(records[i])]

(* C20: parseSSEResponse returns the last record that parses and has       *)
(* status succeeded or failed if there is one, else the last record that   *)
(* parses, and nothing when no record parses; the lines that are blank,    *)
(* are no data lines or do not parse can be left out without changing the  *)
(* result; [running, succeeded] and [succeeded, running] both give the     *)
(* succeeded record.  (A record that is the JSON text null parses, and     *)
(* its value is the nil map.)                                              *)
C20_LastCompletedElseLast ==
    Done("parseSSEResponse") =>
        LET lines == calc.arg
            parsed == {i \in 1..Len(lines) : Parses(lines[i])}
            value(i) == Unmarshal(lines[i].payload).data
            completed == {i \in parsed : Completed(value(i))}
            running == Record("running", "a")
            succeeded == Record("succeeded", "a")
        IN  /\ calc.out = IF completed # {} THEN value(Last(completed))
                          ELSE IF parsed # {} THEN value(Last(parsed))
                          ELSE NilMap
            /\ calc.out = parseSSEResponse(SelectSeq(lines, Parses))
            /\ lines = Stream(<<running, succeeded>>) => calc.out = Map(succeeded.members)
            /\ lines = Stream(<<succeeded, running>>) => calc.out = Map(succeeded.members)

(* the stream [succeeded a, blank line, running b] has given succeeded a *)
C20_Witness ==
    /\ Done("parseSSEResponse")
    /\ calc.arg = << DataLine(Record("succeeded", "a")),
                     [field |-> "", payload |-> NoPayload],
                     DataLine(Record("running", "b")) >>
    /\ calc.out = Map(Record("succeeded", "a").members)

----------------------------------------------------------------------------
(* The adapters' calls on their own: what a call returns for the response  *)
(* the transport hands it.  A response is a transport error, or a status   *)
(* code with a body; a body is a JSON text or an event stream.             *)

JObject(members) == [type |-> "object", val |-> members]

JArray(items) == [type |-> "array", val |-> items]

EventStream(lines) == [json |-> "sse", lines |-> lines]

BodyAccepted == Object([id |-> JString("t1")])

BodyAcceptedNested == Object([data |-> JObject([id |-> JString("t1")])])

BodyRunning ==
    Object([data |-> JObject([id |-> JString("t1"), status |-> JString("running")])])

BodyDone ==
    Object([id |-> JString("t1"), status |-> JString("succeeded"),
            results |-> JArray(<<JObject([url |-> JString("https://provider/result.png")])>>)])

BodyRejected == Object([code |-> JNumber, msg |-> JString("bad")])

Bodies ==
    { BodyAccepted, BodyAcceptedNested, BodyRunning, BodyDone, BodyRejected,
      JNull, JBroken, NoPayload,
      EventStream(<<DataLine(JBroken)>>),
      EventStream(<<DataLine(Record("running", "a")), DataLine(Record("succeeded", "a"))>>) }

StatusCodes == {200, 204, 301, 400, 401, 500, 503}

Responses ==
    [transport : {TRUE}, code : {0}, body : {NoPayload}]
        \cup [transport : {FALSE}, code : StatusCodes, body : Bodies]

AdapterCalls ==
    {"CreateNanoBananaTask", "CreateSoraVideoTask", "GetTaskResult", "CreateImageTask"}

(* return nil, err *)
CallError == [err |-> TRUE, result |-> NilMap]

CallResult(result) == [err |-> FALSE, result |-> result]

Is2xx(code) == code >= 200 /\ code < 300

(* the map postJSON decodes the body into; it stays nil when the body is   *)
(* empty or json.Unmarshal refuses it, and no error is kept                *)
Decoded(body) ==
    IF body.json = "empty" THEN NilMap
    ELSE IF body.json = "sse" THEN parseSSEResponse(body.lines)
    ELSE Unmarshal(body).data

postJSON(resp) ==
    IF resp.transport THEN CallError
    ELSE IF ~Is2xx(resp.code) THEN CallError
    ELSE CallResult(Decoded(resp.body))

(* m[key].(string), "" when the map is nil, the key absent or no string *)
StringAt(m, key) ==
    IF ~m.nil /\ key \in DOMAIN m.members /\ m.members[key].type = "string"
    THEN m.members[key].val ELSE ""

(* m[key].(map[string]interface{}) *)
MapAt(m, key) ==
    IF ~m.nil /\ key \in DOMAIN m.members /\ m.members[key].type = "object"
    THEN Map(m.members[key].val) ELSE NilMap

HasResults(m) ==
    /\ ~m.nil /\ "results" \in DOMAIN m.members
    /\ m.members.results.type = "array" /\ Len(m.members.results.val) > 0

parseTaskResult(data) ==
    [ID |-> StringAt(data, "id"), Status |-> StringAt(data, "status"),
     Results |-> IF HasResults(data) THEN data.members.results.val ELSE << >>]

GetTaskResult(resp) ==
    LET r == postJSON(resp)
        data == IF MapAt(r.result, "data") # NilMap THEN MapAt(r.result, "data")
                ELSE r.result
    IN  IF r.err THEN CallError ELSE CallResult(parseTaskResult(data))

(* CreateNanoBananaTask and CreateSoraVideoTask after their postJSON *)
CreateTask(resp) ==
    LET r == postJSON(resp)
        result == r.result
        rejected == /\ ~result.nil /\ "code" \in DOMAIN result.members
                    /\ result.members.code.type = "number"
        nested == StringAt(MapAt(result, "data"), "id")
        taskID == IF nested # "" THEN nested ELSE StringAt(result, "id")
    IN  IF r.err \/ rejected THEN CallError
        ELSE IF StringAt(result, "status") # "" /\ HasResults(result)
        THEN CallResult([ID |-> taskID, Finished |-> TRUE, Result |-> parseTaskResult(result)])
        ELSE IF taskID = "" THEN CallError
        ELSE CallResult([ID |-> taskID, Finished |-> FALSE])

(* gemini.CreateImageTask after the request: json.Unmarshal into the       *)
(* response struct, whose error is returned                                *)
CreateImageTask(resp) ==
    IF resp.transport \/ ~Is2xx(resp.code) THEN CallError
    ELSE IF resp.body.json \in {"object", "null"} THEN CallResult(Unmarshal(resp.body).data)
    ELSE CallError

AdapterCall(fn, resp) ==
    CASE fn = "GetTaskResult" -> GetTaskResult(resp)
      [] fn = "CreateImageTask" -> CreateImageTask(resp)
      [] OTHER -> CreateTask(resp)

InitAdapters ==
    AtRest /\ \E fn \in AdapterCalls, resp \in Responses : calc = Call(fn, resp)

ComputeAdapter ==
    /\ calc.fn \in AdapterCalls /\ calc.pc = "call"
    /\ calc' = Returned(calc.fn, AdapterCall(calc.fn, calc.arg))
    /\ UNCHANGED <<build, cfg, userProvider, settings, rows, deleted, activeJobs, ticks,
                   runs, submits, now>>

SpecAdapters == InitAdapters /\ [][ComputeAdapter]_vars

(* a body no record or JSON value can be read from *)
Unparseable(body) ==
    \/ body.json \in {"empty", "broken"}
    \/ body.json = "sse" /\ \A i \in 1..Len(body.lines) : ~Parses(body.lines[i])

(* C21: a call of either adapter returns an error and no result whenever   *)
(* the transport failed, the status code is outside 200..299, or the body  *)
(* cannot be parsed (an empty body included), for a submission and for a   *)
(* fetch of a task's result alike.                                         *)
C21_BadResponseIsAnError ==
    (calc.fn \in AdapterCalls /\ calc.pc = "done") =>
        LET resp == calc.arg
        IN  (resp.transport \/ ~Is2xx(resp.code) \/ Unparseable(resp.body)) =>
                calc.out = CallError

----------------------------------------------------------------------------
(* The inline result of the Gemini adapter and its materializer: texts are *)
(* tuples of characters, a byte is a number below 256                      *)
MaxBytes == 3

ByteValues == {0, 77, 255}

RECURSIVE ByteStrings(_)
ByteStrings(n) ==
    IF n = 0 THEN {<< >>}
    ELSE ByteStrings(n - 1) \cup {Append(b, v) : b \in ByteStrings(n - 1), v \in ByteValues}

MimePNG == <<"i", "m", "a", "g", "e", "/", "p", "n", "g">>

MimeTypes ==
    { MimePNG, <<"d", "a", "t", "a", ":", "x">>, <<"x", ";", "b", "a", "s", "e", "6", "4">>, <<"a", ",", "b">>, << >> }

(* base64.StdEncoding: the alphabet, "=" for padding *)
StdAlphabet ==
    << "A", "B", "C", "D", "E", "F", "G", "H", "I", "J", "K", "L", "M", "N", "O", "P",
       "Q", "R", "S", "T", "U", "V", "W", "X", "Y", "Z", "a", "b", "c", "d", "e", "f",
       "g", "h", "i", "j", "k", "l", "m", "n", "o", "p", "q", "r", "s", "t", "u", "v",
       "w", "x", "y", "z", "0", "1", "2", "3", "4", "5", "6", "7", "8", "9", "+", "/" >>

Sextet(c) == (CHOOSE i \in 1..64 : StdAlphabet[i] = c) - 1

Drop(s, n) == SubSeq(s, n + 1, Len(s))

RECURSIVE EncodeToString(_)
EncodeToString(b) ==
    IF Len(b) = 0 THEN << >>
    ELSE LET b1 == b[1]
             b2 == IF Len(b) >= 2 THEN b[2] ELSE 0
             b3 == IF Len(b) >= 3 THEN b[3] ELSE 0
             n == b1 * 65536 + b2 * 256 + b3
             c(k) == StdAlphabet[((n \div (64 ^ k)) % 64) + 1]
         IN  IF Len(b) = 1 THEN <<c(3), c(2), "=", "=">>
             ELSE IF Len(b) = 2 THEN <<c(3), c(2), c(1), "=">>
             ELSE <<c(3), c(2), c(1), c(0)>> \o EncodeToString(Drop(b, 3))

InAlphabet(c) == \E i \in 1..64 : StdAlphabet[i] = c

(* DecodeString: quanta of four characters, padding in the last one only *)
RECURSIVE DecodeString(_)
DecodeString(s) ==
    IF Len(s) = 0 THEN [err |-> FALSE, bytes |-> << >>]
    ELSE IF Len(s) < 4 \/ ~InAlphabet(s[1]) \/ ~InAlphabet(s[2]) THEN [err |-> TRUE, bytes |-> << >>]
    ELSE LET pad == IF s[4] # "=" THEN 0 ELSE IF s[3] # "=" THEN 1 ELSE 2
             v(k) == IF k > 4 - pad THEN 0
                     ELSE IF InAlphabet(s[k]) THEN Sextet(s[k]) ELSE 64
             n == v(1) * 262144 + v(2) * 4096 + v(3) * 64 + v(4)
             quantum == SubSeq(<<n \div 65536, (n \div 256) % 256, n % 256>>, 1, 3 - pad)
             rest == DecodeString(Drop(s, 4))
         IN  IF v(3) = 64 \/ v(4) = 64 \/ (pad > 0 /\ Len(s) > 4) \/ rest.err
             THEN [err |-> TRUE, bytes |-> << >>]
             ELSE [err |-> FALSE, bytes |-> quantum \o rest.bytes]

PrefixData == <<"d", "a", "t", "a", ":">>

SuffixBase64 == <<";", "b", "a", "s", "e", "6", "4">>

HasPrefix(s, p) == Len(s) >= Len(p) /\ SubSeq(s, 1, Len(p)) = p

HasSuffix(s, p) == Len(s) >= Len(p) /\ SubSeq(s, Len(s) - Len(p) + 1, Len(s)) = p

TrimPrefix(s, p) == IF HasPrefix(s, p) THEN Drop(s, Len(p)) ELSE s

(* the text as it is, whatever its end *)
KeepSuffix(s, p) == s

TrimSuffix(s, p) == IF HasSuffix(s, p) THEN SubSeq(s, 1, Len(s) - Len(p)) ELSE s

(* ExtractImageURLs on one inline_data part: fmt.Sprintf("data:%s;base64,%s") *)
(* when neither the mime type nor the data is empty                         *)
ExtractImageURLs(mimeType, data) ==
    IF mimeType # << >> /\ data # << >>
    THEN << PrefixData \o mimeType \o SuffixBase64 \o <<",">> \o data >>
    ELSE << >>

(* strings.SplitN(s, ",", 2) *)
SplitN2(s) ==
    LET commas == {i \in 1..Len(s) : s[i] = ","}
    IN  IF commas = {} THEN <<s>>
        ELSE LET i == CHOOSE j \in commas : \A k \in commas : j <= k
             IN  <<SubSeq(s, 1, i - 1), Drop(s, i)>>

(* runGeminiGeneration from the extracted URLs to handlers.SaveBufferToFile: *)
(* "saved" with the mime type and the bytes handed over, or the failure      *)
Materialize(imageURLs) ==
    IF Len(imageURLs) = 0 THEN [end |-> "no result"]
    ELSE LET parts == SplitN2(imageURLs[1]) IN
         IF Len(parts) # 2 THEN [end |-> "bad format"]
         ELSE LET mimeType == TrimSuffix(TrimPrefix(parts[1], PrefixData), SuffixBase64)
                  imageData == DecodeString(parts[2])
              IN  IF imageData.err THEN [end |-> "bad base64"]
                  ELSE [end |-> "saved", mimeType |-> mimeType, data |-> imageData.bytes]

InitInline ==
    AtRest /\ \E m \in MimeTypes, b \in ByteStrings(MaxBytes) :
                calc = Call("Materialize", [mimeType |-> m, bytes |-> b])

ComputeInline ==
    /\ calc.fn = "Materialize" /\ calc.pc = "call"
    /\ calc' = Returned("Materialize",
                    Materialize(ExtractImageURLs(calc.arg.mimeType,
                                                 EncodeToString(calc.arg.bytes))))
    /\ UNCHANGED <<build, cfg, userProvider, settings, rows, deleted, activeJobs, ticks,
                   runs, submits, now>>

SpecInline == InitInline /\ [][ComputeInline]_vars

RoundTrip ==
    calc.out = [end |-> "saved", mimeType |-> calc.arg.mimeType, data |-> calc.arg.bytes]

(* C22 as stated: every byte sequence and every mime type come back from   *)
(* the materializer as they went into the inline result.                   *)
C22_RoundTripForAll == Done("Materialize") => RoundTrip

(* C22: a non-empty byte sequence B and a non-empty mime type M without a  *)
(* comma, put into data:M;base64,enc(B), reach file storage as exactly B   *)
(* and M.                                                                  *)
C22_RoundTripWithoutComma ==
    (Done("Materialize") /\ calc.arg.bytes # << >> /\ calc.arg.mimeType # << >>
                         /\ \A i \in 1..Len(calc.arg.mimeType) : calc.arg.mimeType[i] # ",") =>
        RoundTrip

(* two bytes (one padding character) with mime type image/png have come   *)
(* back                                                                    *)
C22_Witness ==
    /\ Done("Materialize")
    /\ calc.arg = [mimeType |-> MimePNG, bytes |-> <<255, 77>>]
    /\ calc.out = [end |-> "saved", mimeType |-> MimePNG, data |-> <<255, 77>>]

----------------------------------------------------------------------------
(* the fields of a job row that a tick or an engine run may write *)
LifecycleFields ==
    { "status", "startedAt", "elapsedSeconds", "progress", "error", "errorCode",
      "providerTaskId", "providerResultUrl", "outputFileId", "updatedAt" }

(* a step of the runner: every step but the handlers' insert and delete *)
HandlerStep ==
    \/ \E id \in Ids, type \in JobTypes : Create(id, type)
    \/ \E id \in Ids : DeleteGeneration(id)

(* C23: a step of a tick or of an engine run neither creates nor deletes a *)
(* job row, and changes no field of a row outside the lifecycle fields:    *)
(* owner, kind, model and prompt stay as they were.                        *)
C23_OnlyLifecycleFieldsWritten ==
    [][~HandlerStep =>
        /\ DOMAIN rows' = DOMAIN rows
        /\ \A id \in DOMAIN rows :
            /\ DOMAIN rows'[id] = DOMAIN rows[id]
            /\ \A c \in DOMAIN rows[id] \ LifecycleFields : rows'[id][c] = rows[id][c]]_vars

(* a run has written the succeeded state with the file and the URL *)
C23_Witness ==
    \E id \in DOMAIN rows :
        /\ rows[id].status = "succeeded"
        /\ rows[id].outputFileId # NoFile
        /\ rows[id].providerResultUrl # NoURL
        /\ rows[id].prompt = "a prompt"

(* C24: once a job's persisted startedAt is set, no later write gives it   *)
(* another value.                                                          *)
C24_StartedAtWrittenOnce ==
    [][\A id \in Ids :
        (Kept(id) /\ rows[id].startedAt # 0) =>
            rows'[id].startedAt = rows[id].startedAt]_vars

(* the job a tick's loop stands at *)
Current(t) == ticks[t].gens[ticks[t].i]

(* C25: a successful listing lists exactly the jobs whose status is queued *)
(* or running; for each listed job, in turn, the tick skips it when its id *)
(* is in the guard set and otherwise adds the id and launches exactly one  *)
(* run with the listed copy; no run is launched in any other way, so a     *)
(* job that was succeeded or failed at the listing is not launched by it.  *)
C25_EligibleJobsAreDispatched ==
    /\ [][\A t \in Ticks :
            (ticks[t].pc = "idle" /\ ticks'[t].pc \in {"loop", "done"}) =>
                {ticks'[t].gens[i].ID : i \in 1..Len(ticks'[t].gens)}
                    = {id \in DOMAIN rows : rows[id].status \in Pending}]_vars
    /\ [][\A t \in Ticks :
            (ticks[t].pc = "loop" /\ ticks'[t] # ticks[t]) =>
                ticks'[t].pc = IF Current(t).ID \in activeJobs THEN "skip" ELSE "store"]_vars
    /\ [][\A t \in Ticks :
            (ticks[t].pc \in {"skip", "store"} /\ ticks'[t] # ticks[t]) =>
                /\ ticks[t].pc = "store" =>
                    /\ activeJobs' = activeJobs \cup {Current(t).ID}
                    /\ runs' = runs (+) SetToBag({NewRun(Current(t))})
                /\ ticks[t].pc = "skip" => runs' = runs /\ activeJobs' = activeJobs
                /\ IF ticks[t].i < Len(ticks[t].gens)
                   THEN ticks'[t] = [ticks[t] EXCEPT !.pc = "loop", !.i = @ + 1]
                   ELSE ticks'[t].pc = TickEnd(t)]_vars
    /\ [][\A id \in Ids : \A r \in Begun(id) :
            r.pc = "start" =>
                \E t \in Ticks : ticks[t].pc = "store" /\ ticks'[t] # ticks[t]
                                    /\ r = NewRun(Current(t))]_vars

(* the ticker has listed a pending job, launched its run and returned *)
C25_Witness ==
    /\ ticks["ticker"].pc = "idle"
    /\ ticks["startup"] = [pc |-> "done", gens |-> << >>, i |-> 0]
    /\ \E r \in Live :
        /\ r.pc = "start"
        /\ r.g.ID \in activeJobs
        /\ RunsOf(runs, r.g.ID) = 1

(* a poll iteration has re-read a job that is not terminal and has no      *)
(* provider task id                                                        *)
PollWithoutTask ==
    \E r \in Live :
        /\ r.pc = "poll" /\ r.g.ID \in DOMAIN rows
        /\ rows[r.g.ID].status \notin Terminal
        /\ rows[r.g.ID].providerTaskId = NoTask

C27_ImmediateResultEndsTheRun ==
    [][\A r \in Live, result \in ImmediateResults, d \in Downloads :
        (SubmitImmediate(r, result, d) /\ Kept(r.g.ID)) =>
            /\ \E r2 \in Begun(r.g.ID) : r2.pc = "ret" /\ r2.attempts = 0
            /\ rows'[r.g.ID].providerTaskId = rows[r.g.ID].providerTaskId
            /\ rows'[r.g.ID].status \in Terminal]_vars

(* C28: on the GRSAI route a step makes a job succeeded only when the      *)
(* provider's answer in that step, a submission response or a fetch        *)
(* result, has status succeeded and a first result URL and the download    *)
(* was stored; an immediate result with another status does not.           *)
C28_SucceededOnlyOnProviderSuccess ==
    [][\A r \in Live, d \in Downloads :
        LET becomes == /\ Kept(r.g.ID)
                       /\ rows[r.g.ID].status # "succeeded"
                       /\ rows'[r.g.ID].status = "succeeded"
            good(result) == /\ result.Status = "succeeded"
                            /\ ExtractFirstResultURL(result) # NoURL
                            /\ d = NoText
        IN  /\ \A result \in ImmediateResults :
                (SubmitImmediate(r, result, d) /\ becomes) => good(result)
            /\ \A result \in FetchResults :
                (FetchAnswer(r, result, d, MaxPolls) /\ becomes) => good(result)]_vars

(* C29: a poll iteration that re-reads a job that is gone, or whose        *)
(* persisted status is succeeded or failed, ends the run at once: the run  *)
(* is returned without an error, no fetch is under way, no submission was  *)
(* made and the table is left as it was.                                   *)
C29_TerminalRereadEndsQuietly ==
    [][\A r \in Live :
        (/\ RunPoll(r)
         /\ r.attempts < Budget(r)
         /\ (r.g.ID \in DOMAIN rows => rows[r.g.ID].status \in Terminal)) =>
            /\ rows' = rows
            /\ deleted' = deleted
            /\ submits' = submits
            /\ \A r2 \in Begun(r.g.ID) : r2.pc = "ret" /\ r2.end = "quiet" /\ ~r2.err]_vars

(* a run that found its job succeeded by another run at a poll iteration   *)
(* and returned with nothing written                                       *)
C29_Witness ==
    \E r \in Live :
        /\ r.pc = "ret" /\ r.end = "quiet"
        /\ r.g.ID \in DOMAIN rows
        /\ rows[r.g.ID].status = "succeeded"

(* C30: a run on the Gemini route is over after its one step: the run has  *)
(* returned, it made at most one provider call, the job's providerTaskId   *)
(* is as it was, and the job is persisted as succeeded or failed.          *)
C30_GeminiRunEndsTerminal ==
    [][\A r \in Live :
        (RunGemini(r) /\ Kept(r.g.ID)) =>
            /\ \A r2 \in Begun(r.g.ID) : r2.pc = "ret" /\ r2.attempts = 0
            /\ submits'[r.g.ID] <= submits[r.g.ID] + 1
            /\ rows'[r.g.ID].providerTaskId = rows[r.g.ID].providerTaskId
            /\ rows'[r.g.ID].status \in Terminal]_vars

----------------------------------------------------------------------------
(* C31: a run that finds no API key for the job's owner ends with the job  *)
(* persisted as failed with the API-error code, and makes no provider      *)
(* call.                                                                   *)
C31_NoKeyFailsWithAPIError ==
    [][\A r \in Live :
        (RunNoKey(r) /\ Kept(r.g.ID)) =>
            /\ rows'[r.g.ID].status = "failed"
            /\ ErrorCodeOf(rows'[r.g.ID]) = ErrorCodeAPIError
            /\ submits' = submits
            /\ \A r2 \in Begun(r.g.ID) : r2.pc = "ret"]_vars

----------------------------------------------------------------------------
(* Provider settings of a user: the settings handler stores them, a run    *)
(* resolves them; calc holds the last resolution                           *)

HostCustom == <<"h", "t", "t", "p", ":", "/", "/", "m", "y", ".", "h", "o", "s", "t">>

HostInputs == {HostGRSAI, HostYunwu, HostCustom, <<" ">> \o HostCustom \o <<" ">>, <<" ">>}

APIKeyInputs == {"", "user-key"}

Ciphertexts == {"enc(user-key)"}

(* crypto.EncryptText: the ciphertext that decrypts to apiKey *)
EncryptText(apiKey) ==
    CHOOSE enc \in Ciphertexts : DecryptText(enc) = [err |-> FALSE, text |-> apiKey]

RECURSIVE TrimLeft(_)
TrimLeft(s) == IF s # << >> /\ Head(s) = " " THEN TrimLeft(Drop(s, 1)) ELSE s

RECURSIVE TrimRight(_)
TrimRight(s) ==
    IF s # << >> /\ s[Len(s)] = " " THEN TrimRight(SubSeq(s, 1, Len(s) - 1)) ELSE s

TrimSpace(s) == TrimRight(TrimLeft(s))

(* database.SetUserProvider: UPDATE with COALESCE(?, apiKeyEnc), else      *)
(* INSERT; a NULL apiKeyEnc reads back as the empty string                 *)
SetUserProvider(providerHost, apiKey) ==
    LET apiKeyEnc == IF apiKey # "" THEN EncryptText(apiKey)
                     ELSE IF userProvider # NoProvider THEN userProvider.APIKeyEnc
                     ELSE ""
    IN  [ProviderHost |-> providerHost, APIKeyEnc |-> apiKeyEnc]

UpdateProviderSettings(host, apiKey) ==
    /\ userProvider' = IF TrimSpace(host) = NoText THEN userProvider
                       ELSE SetUserProvider(TrimSpace(host), apiKey)
    /\ UNCHANGED <<calc, build, cfg, settings, rows, deleted, activeJobs, ticks, runs,
                   submits, now>>

(* runGeneration resolving the provider of the job's owner *)
ResolveProvider ==
    /\ calc' = [fn |-> "getEffectiveProvider", pc |-> "done", arg |-> userProvider,
                out |-> getEffectiveProvider]
    /\ UNCHANGED <<build, cfg, userProvider, settings, rows, deleted, activeJobs, ticks,
                   runs, submits, now>>

(* records left by an earlier deployment: none, or one whose key was       *)
(* encrypted under another APIKeyEncryptionSecret                          *)
LeftProviders == {NoProvider, [ProviderHost |-> HostYunwu, APIKeyEnc |-> "enc(stale)"]}

InitProvider ==
    /\ build = "coded"
    /\ \E key \in {"", "system-key"} : cfg = SystemConfig(key)
    /\ userProvider \in LeftProviders
    /\ settings = [ImageTimeoutSeconds |-> MinTimeoutSeconds,
                   VideoTimeoutSeconds |-> MinTimeoutSeconds]
    /\ rows = << >>
    /\ ticks = [t \in Ticks |-> [pc |-> TickEnd(t), gens |-> << >>, i |-> 0]]
    /\ deleted = {}
    /\ activeJobs = {}
    /\ runs = EmptyBag
    /\ submits = [id \in Ids |-> 0]
    /\ now = ClockStep
    /\ calc = NoCalc

NextProvider ==
    \/ \E host \in HostInputs, apiKey \in APIKeyInputs : UpdateProviderSettings(host, apiKey)
    \/ ResolveProvider

SpecProvider == InitProvider /\ [][NextProvider]_vars

(* C32: a resolution that returns the system default API key returns the   *)
(* system default host with it.                                            *)
C32_DefaultKeyOnlyToDefaultHost ==
    (Done("getEffectiveProvider") /\ ~calc.out.err
        /\ calc.out.apiKey = cfg.DefaultProviderAPIKey) =>
            calc.out.host = cfg.DefaultProviderHost

----------------------------------------------------------------------------
(* Calls of resolveJobTimeoutSeconds over the settings the table can hold *)

MaxSetting == 32

SettingValues == ((0 - 1)..MaxSetting) \cup {DefaultTimeoutSeconds, MaxTimeoutSeconds}

SettingsRows ==
    [ImageTimeoutSeconds : SettingValues, VideoTimeoutSeconds : SettingValues]
        \cup {NoSettingsRow, SettingsBroken}

InitTimeouts ==
    /\ build = "coded"
    /\ cfg = SystemConfig("system-key")
    /\ userProvider = NoProvider
    /\ settings \in SettingsRows
    /\ rows = << >>
    /\ ticks = [t \in Ticks |-> [pc |-> TickEnd(t), gens |-> << >>, i |-> 0]]
    /\ deleted = {}
    /\ activeJobs = {}
    /\ runs = EmptyBag
    /\ submits = [id \in Ids |-> 0]
    /\ now = ClockStep
    /\ \E genType \in JobTypes : calc = Call("resolveJobTimeoutSeconds", genType)

(* the timeout of a run and the attempt budget computed from it *)
ComputeTimeout ==
    /\ calc.fn = "resolveJobTimeoutSeconds" /\ calc.pc = "call"
    /\ calc' = Returned("resolveJobTimeoutSeconds",
                        [timeoutSeconds |-> resolveJobTimeoutSeconds(calc.arg),
                         maxAttempts |-> maxAttempts(resolveJobTimeoutSeconds(calc.arg))])
    /\ UNCHANGED <<build, cfg, userProvider, settings, rows, deleted, activeJobs, ticks,
                   runs, submits, now>>

SpecTimeouts == InitTimeouts /\ [][ComputeTimeout]_vars

(* the stored timeout of a kind: none where there is no readable row *)
Stored(genType) ==
    IF settings \in {NoSettingsRow, SettingsBroken} THEN 0 - 1
    ELSE IF genType = "video" THEN settings.VideoTimeoutSeconds
    ELSE settings.ImageTimeoutSeconds

(* C33: the effective timeout of a job is the stored setting of its kind   *)
(* when that is at least 30, and 600 when it is below 30 or cannot be      *)
(* read; so it is at least 30 and the attempt budget at least 15.          *)
C33_TimeoutIsSettingOrDefault ==
    Done("resolveJobTimeoutSeconds") =>
        /\ calc.out.timeoutSeconds =
                IF Stored(calc.arg) >= 30 THEN Stored(calc.arg) ELSE 600
        /\ calc.out.timeoutSeconds >= 30
        /\ calc.out.maxAttempts >= 15

(* a video job whose stored timeout is below the floor while the image     *)
(* timeout is not, resolved to 600                                         *)
C33_Witness ==
    /\ Done("resolveJobTimeoutSeconds")
    /\ calc.arg = "video"
    /\ settings \notin {NoSettingsRow, SettingsBroken}
    /\ settings.VideoTimeoutSeconds = 29
    /\ settings.ImageTimeoutSeconds = 31
    /\ calc.out.timeoutSeconds = 600

----------------------------------------------------------------------------
(* C34: a step that makes a job succeeded leaves it with progress 100, the *)
(* stored file and the result's reference, and every job persisted as      *)
(* succeeded has progress 100 and a providerResultUrl.                     *)
C34_SucceededHasFullProgress ==
    /\ [](\A id \in DOMAIN rows :
            rows[id].status = "succeeded" =>
                rows[id].progress = 100 /\ rows[id].providerResultUrl # NoURL)
    /\ [][\A id \in DOMAIN rows :
            (Kept(id) /\ rows[id].status # "succeeded" /\ rows'[id].status = "succeeded") =>
                /\ rows'[id].progress = 100
                /\ rows'[id].outputFileId = "file"
                /\ rows'[id].providerResultUrl \in {ResultURL, InlineImage}]_vars

----------------------------------------------------------------------------
(* Terminal writes over clocks and start times, the clock behind the start *)
(* time included                                                           *)

MaxSeconds == 2

Stamps ==
    {0, 1, ClockStep - 1}
        \cup {k * ClockStep + j : k \in 1..MaxSeconds, j \in {0, 1, ClockStep - 1}}

TerminalWrites == {"succeeded", "failed"}

InitElapsed ==
    /\ \E d \in Deployments \cup PlainDeployments :
            build = d.build /\ cfg = d.cfg /\ userProvider = d.userProvider
    /\ settings = [ImageTimeoutSeconds |-> MinTimeoutSeconds,
                   VideoTimeoutSeconds |-> MinTimeoutSeconds]
    /\ \E startedAt \in Stamps :
            rows \in { << >>,
                       <<[CreateGeneration("image") EXCEPT !.status = "running",
                                                           !.startedAt = startedAt]>> }
    /\ ticks = [t \in Ticks |-> [pc |-> TickEnd(t), gens |-> << >>, i |-> 0]]
    /\ deleted = {}
    /\ activeJobs = {}
    /\ runs = EmptyBag
    /\ submits = [id \in Ids |-> 0]
    /\ now \in Stamps
    /\ \E w \in TerminalWrites : calc = Call("terminal", w)

(* the terminal write of a run of job 1 *)
WriteTerminal ==
    /\ calc.fn = "terminal" /\ calc.pc = "call"
    /\ LET res == IF calc.arg = "succeeded" THEN updateSucceeded(rows, 1, "file", ResultURL)
                  ELSE updateFailed(rows, 1, MsgTaskFailed)
       IN  /\ rows' = res.rows
           /\ calc' = Returned("terminal", res.err)
    /\ UNCHANGED <<build, cfg, userProvider, settings, deleted, activeJobs, ticks, runs,
                   submits, now>>

SpecElapsed == InitElapsed /\ [][WriteTerminal]_vars

(* the whole seconds from startedAt to now, never below zero *)
Elapsed(startedAt) ==
    IF now < startedAt THEN 0
    ELSE CHOOSE n \in 0..(MaxSeconds + 1) :
            n * 1000 <= now - startedAt /\ now - startedAt < (n + 1) * 1000

(* C35: a write that makes a job succeeded or failed sets elapsedSeconds   *)
(* to the whole seconds from the persisted startedAt to now, and to zero   *)
(* when now is before startedAt; where startedAt is not set elapsedSeconds *)
(* stays as it was.                                                        *)
C35_ElapsedIsWholeSecondsOrZero ==
    [][\A id \in DOMAIN rows :
        (WriteTerminal /\ rows'[id].status \in Terminal) =>
            /\ rows[id].startedAt # 0 =>
                    rows'[id].elapsedSeconds = Elapsed(rows[id].startedAt)
            /\ rows[id].startedAt = 0 =>
                    rows'[id].elapsedSeconds = rows[id].elapsedSeconds
            /\ rows'[id].elapsedSeconds >= 0 \/ rows[id].startedAt = 0]_vars

(* a job made terminal while the clock was more than a second behind its   *)
(* startedAt: elapsedSeconds is zero                                       *)
C35_Witness ==
    /\ Done("terminal")
    /\ 1 \in DOMAIN rows
    /\ rows[1].status = "failed"
    /\ now + ClockStep < rows[1].startedAt
    /\ rows[1].elapsedSeconds = 0

----------------------------------------------------------------------------
(* C36: when the provider reports success and the first result has no URL *)
(* or its download fails, the step stores no file, does not make the job   *)
(* succeeded and leaves it persisted as failed, with the API-error code    *)
(* for a missing URL and the network-error code for a failed download.     *)
C36_MaterializationFailsClosed ==
    [][\A r \in Live, d \in Downloads, result \in FetchResults \cup ImmediateResults :
        LET id == r.g.ID
            step == \/ result \in ImmediateResults /\ SubmitImmediate(r, result, d)
                    \/ result \in FetchResults /\ FetchAnswer(r, result, d, MaxPolls)
            url == ExtractFirstResultURL(result)
        IN  (/\ step /\ Kept(id)
             /\ result.Status = "succeeded"
             /\ rows[id].status \notin Terminal
             /\ url = NoURL \/ d # NoText) =>
                /\ rows'[id].outputFileId = rows[id].outputFileId
                /\ rows'[id].status = "failed"
                /\ ErrorCodeOf(rows'[id]) =
                        IF url = NoURL THEN ErrorCodeAPIError ELSE ErrorCodeNetworkError]_vars

----------------------------------------------------------------------------
(* The Gemini route from the provider's response to the terminal write:    *)
(* ExtractImageURLs over candidates and parts, then the materializer       *)

MaxCandidates == 2
MaxParts == 2

MsgBadImageFormat ==
    <<"u65e0", "u6548", "u7684", "u56fe", "u7247", "u6570", "u636e", "u683c", "u5f0f">>
MsgDecodePrefix ==
    <<"u89e3", "u7801", "u56fe", "u7247", "u6570", "u636e", "u5931", "u8d25", "uff1a">>
MsgIllegalBase64 == <<"i", "l", "l", "e", "g", "a", "l">>

MimeJPEG == <<"i", "m", "a", "g", "e", "/", "j", "p", "e", "g">>
MimeGIF == <<"i", "m", "a", "g", "e", "/", "g", "i", "f">>
MimeWebP == <<"i", "m", "a", "g", "e", "/", "w", "e", "b", "p">>

(* the base64 headers a text part is tested for, in the order of the tests *)
ImageHeaders ==
    << [prefix |-> <<"/", "9", "j", "/">>, mimeType |-> MimeJPEG],
       [prefix |-> <<"i", "V", "B", "O", "R", "w", "0", "K", "G", "g", "o">>,
        mimeType |-> MimePNG],
       [prefix |-> <<"R", "0", "l", "G", "O", "D">>, mimeType |-> MimeGIF],
       [prefix |-> <<"U", "k", "l", "G", "R">>, mimeType |-> MimeWebP] >>

(* a part of a candidate: its inline_data map, if any, and its text *)
Part(inline, mimeType, data, text) ==
    [inline |-> inline, mimeType |-> mimeType, data |-> data, text |-> text]

Parts ==
    { Part(TRUE, MimePNG, EncodeToString(<<77>>), << >>),
      Part(TRUE, << >>, << >>, <<"/", "9", "j", "/", "4", "A", "=", "=">>),
      Part(FALSE, << >>, << >>, <<"/", "9", "j", "/">>),
      Part(FALSE, << >>, << >>, <<"R", "0", "l", "G", "O", "D">>),
      Part(FALSE, << >>, << >>, <<"h", "i">>) }

SeqsUpTo(S, n) == UNION {[1..k -> S] : k \in 0..n}

GeminiResponses == SeqsUpTo(SeqsUpTo(Parts, MaxParts), MaxCandidates)

(* the data URLs one part adds: the inline data when it is whole, else the *)
(* text under the first header it starts with                              *)
PartURLs(part) ==
    LET inlined == IF part.inline THEN ExtractImageURLs(part.mimeType, part.data)
                   ELSE << >>
        hits == {i \in 1..Len(ImageHeaders) : HasPrefix(part.text, ImageHeaders[i].prefix)}
        first == CHOOSE i \in hits : \A j \in hits : i <= j
    IN  IF inlined # << >> THEN inlined
        ELSE IF part.text # << >> /\ hits # {}
        THEN << PrefixData \o ImageHeaders[first].mimeType \o SuffixBase64
                    \o <<",">> \o part.text >>
        ELSE << >>

RECURSIVE Flatten(_)
Flatten(ss) == IF ss = << >> THEN << >> ELSE Head(ss) \o Flatten(Drop(ss, 1))

(* gemini.ExtractImageURLs on a response: candidates in order, parts in order *)
ResponseURLs(response) ==
    LET parts == Flatten(response)
    IN  Flatten([i \in 1..Len(parts) |-> PartURLs(parts[i])])

(* runGeminiGeneration from the extracted URLs on: the file is stored under *)
(* the mime type and bytes of the first URL, or the failure is written      *)
StoreFirstImage(tbl, id, imageURLs) ==
    LET m == Materialize(imageURLs)
        res == IF m.end = "no result"
               THEN Failed(failWith(tbl, id, MsgNoGeminiResult, ErrorCodeAPIError))
               ELSE IF m.end = "bad format"
               THEN Failed(failWith(tbl, id, MsgBadImageFormat, ErrorCodeInvalidRequest))
               ELSE IF m.end = "bad base64"
               THEN Failed(failWith(tbl, id, MsgDecodePrefix \o MsgIllegalBase64,
                                    ErrorCodeAPIError))
               ELSE Succeeded(updateSucceeded(tbl, id, "file", imageURLs[1]))
    IN  res @@ [image |-> m]

InitGemini ==
    /\ build = "coded"
    /\ cfg = SystemConfig("system-key")
    /\ userProvider = YunwuUser
    /\ settings = [ImageTimeoutSeconds |-> MinTimeoutSeconds,
                   VideoTimeoutSeconds |-> MinTimeoutSeconds]
    /\ rows = <<[CreateGeneration("image") EXCEPT !.status = "running",
                                                  !.startedAt = ClockStep]>>
    /\ ticks = [t \in Ticks |-> [pc |-> TickEnd(t), gens |-> << >>, i |-> 0]]
    /\ deleted = {}
    /\ activeJobs = {}
    /\ runs = EmptyBag
    /\ submits = [id \in Ids |-> 0]
    /\ now = ClockStep
    /\ \E response \in GeminiResponses : calc = Call("runGeminiGeneration", response)

(* the run of job 1 once CreateImageTask has returned the response *)
GeminiAnswer ==
    /\ calc.fn = "runGeminiGeneration" /\ calc.pc = "call"
    /\ LET res == StoreFirstImage(rows, 1, ResponseURLs(calc.arg))
       IN  /\ rows' = res.rows
           /\ calc' = Returned("runGeminiGeneration", res.image)
    /\ UNCHANGED <<build, cfg, userProvider, settings, deleted, activeJobs, ticks, runs,
                   submits, now>>

SpecGemini == InitGemini /\ [][GeminiAnswer]_vars

(* a part that can be an image, and the image it is *)
IsImagePart(part) ==
    \/ part.inline /\ part.mimeType # << >> /\ part.data # << >>
    \/ \E i \in 1..Len(ImageHeaders) : HasPrefix(part.text, ImageHeaders[i].prefix)

ImageOf(part) ==
    IF part.inline /\ part.mimeType # << >> /\ part.data # << >>
    THEN [mimeType |-> part.mimeType, data |-> DecodeString(part.data).bytes]
    ELSE LET i == CHOOSE j \in 1..Len(ImageHeaders) :
                        HasPrefix(part.text, ImageHeaders[j].prefix)
         IN  [mimeType |-> ImageHeaders[i].mimeType, data |-> DecodeString(part.text).bytes]

(* C37: the image a response is materialized to is its first part, by      *)
(* candidate and then by part, that is whole inline data or a text under   *)
(* an image header; a response without such a part stores no file and      *)
(* makes the job failed with the API-error code.                           *)
C37_FirstImagePartIsMaterialized ==
    Done("runGeminiGeneration") =>
        LET parts == Flatten(calc.arg)
            images == {i \in 1..Len(parts) : IsImagePart(parts[i])}
            first == CHOOSE i \in images : \A j \in images : i <= j
        IN  /\ calc.out.end = "saved" =>
                /\ images # {}
                /\ [mimeType |-> calc.out.mimeType, data |-> calc.out.data]
                        = ImageOf(parts[first])
            /\ images = {} =>
                /\ calc.out.end # "saved"
                /\ rows[1].outputFileId = NoFile
                /\ rows[1].status = "failed"
                /\ ErrorCodeOf(rows[1]) = ErrorCodeAPIError

----------------------------------------------------------------------------
(* References of a job: the creating handlers store the list, a run reads  *)
(* each file of it and hands the readable ones to the adapter              *)

MaxRefs == 16

MaxImageRefs == 14
MaxVideoRefs == 1

(* the stored list as it is, however long *)
keepRefs(refFileIDs, max) == refFileIDs

(* if len(refFileIDs) > max { refFileIDs = refFileIDs[:max] } *)
capRefs(refFileIDs, max) ==
    IF Len(refFileIDs) > max THEN SubSeq(refFileIDs, 1, max) ELSE refFileIDs

(* the file ids a request names, all of them files of the user *)
RequestedRefs(n) == [i \in 1..n |-> i]

(* files removed or unreadable by the time the run reads them *)
GoneFiles == {{}, {1}, {2, 3}, 1..MaxRefs}

Routes == {"grsai", "gemini"}

InitRefs ==
    AtRest /\ \E type \in JobTypes, n \in 0..MaxRefs, route \in Routes :
                calc = [fn |-> "references", pc |-> "request", type |-> type,
                        route |-> route, refs |-> RequestedRefs(n)]

(* GenerateImage and GenerateVideo: the list is cut and stored with the job *)
GenerateImage ==
    /\ calc.fn = "references" /\ calc.pc = "request" /\ calc.type = "image"
    /\ calc' = [calc EXCEPT !.pc = "stored", !.refs = capRefs(calc.refs, MaxImageRefs)]
    /\ UNCHANGED <<build, cfg, userProvider, settings, rows, deleted, activeJobs, ticks,
                   runs, submits, now>>

GenerateVideo ==
    /\ calc.fn = "references" /\ calc.pc = "request" /\ calc.type = "video"
    /\ calc' = [calc EXCEPT !.pc = "stored", !.refs = capRefs(calc.refs, MaxVideoRefs)]
    /\ UNCHANGED <<build, cfg, userProvider, settings, rows, deleted, activeJobs, ticks,
                   runs, submits, now>>

(* the loop over g.ReferenceFileIDs: a file that cannot be read is skipped *)
Readable(refFileIDs, gone) == SelectSeq(refFileIDs, LAMBDA fid : fid \notin gone)

(* runGRSAIGeneration: every readable reference for an image, the first    *)
(* one for a video                                                         *)
ReferencesGRSAI(gone) ==
    /\ calc.fn = "references" /\ calc.pc = "stored" /\ calc.route = "grsai"
    /\ LET refURLs == Readable(calc.refs, gone)
           passed == IF calc.type = "image" THEN refURLs
                     ELSE IF Len(refURLs) > 0 THEN <<refURLs[1]>> ELSE << >>
       IN  calc' = [calc EXCEPT !.pc = "done"]
                        @@ [gone |-> gone, out |-> [called |-> TRUE, refs |-> passed]]
    /\ UNCHANGED <<build, cfg, userProvider, settings, rows, deleted, activeJobs, ticks,
                   runs, submits, now>>

(* runGeminiGeneration: no call for a video, every readable reference for  *)
(* an image                                                                *)
ReferencesGemini(gone) ==
    /\ calc.fn = "references" /\ calc.pc = "stored" /\ calc.route = "gemini"
    /\ LET out == IF calc.type # "image" THEN [called |-> FALSE, refs |-> << >>]
                  ELSE [called |-> TRUE, refs |-> Readable(calc.refs, gone)]
       IN  calc' = [calc EXCEPT !.pc = "done"] @@ [gone |-> gone, out |-> out]
    /\ UNCHANGED <<build, cfg, userProvider, settings, rows, deleted, activeJobs, ticks,
                   runs, submits, now>>

NextRefs ==
    \/ GenerateImage
    \/ GenerateVideo
    \/ \E gone \in GoneFiles : ReferencesGRSAI(gone)
    \/ \E gone \in GoneFiles : ReferencesGemini(gone)

SpecRefs == InitRefs /\ [][NextRefs]_vars

----------------------------------------------------------------------------
(* A database that can refuse a write: the two writes of a run after       *)
(* which the run returns the error                                         *)

(* runGeneration: the status = running update returns an error *)
RunStartFails(r) ==
    /\ r.pc = "start"
    /\ runs' = Replace(r, Return(r, "dberr", TRUE))
    /\ UNCHANGED <<calc, build, cfg, userProvider, settings, rows, deleted, activeJobs,
                   ticks, submits, now>>

(* runGRSAIGeneration: the task was created, the update that saves its id  *)
(* returns an error                                                        *)
SubmitSaveFails(r) ==
    /\ r.pc = "submit"
    /\ submits' = Bump(r.g.ID)
    /\ runs' = Replace(r, Return(r, "saveerr", TRUE))
    /\ UNCHANGED <<calc, build, cfg, userProvider, settings, rows, deleted, activeJobs,
                   ticks, now>>

NextDB ==
    \/ Tock
    \/ \E t \in Ticks : Sequential(t) /\ TickList(t)
    \/ \E t \in Ticks : TickFail(t)
    \/ \E t \in Ticks : TickLoad(t)
    \/ \E t \in Ticks : TickSkip(t)
    \/ \E t \in Ticks : TickStore(t)
    \/ \E r \in Live : RunStart(r)
    \/ \E r \in Live : RunStartFails(r)
    \/ \E r \in Live : RunNoKey(r)
    \/ \E r \in Live : RunGemini(r)
    \/ \E r \in Live : RunSubmit(r)
    \/ \E r \in Live : SubmitSaveFails(r)
    \/ \E r \in Live : RunPoll(r)
    \/ \E r \in Live : RunFetch(r)
    \/ \E r \in Live : RunReturn(r)

(* the ticker goes on, every goroutine runs, and the database does not     *)
(* refuse the first write of a job's runs for ever                         *)
StartOf(id) == \E r \in Live : r.g.ID = id /\ RunStart(r)

DBFairness ==
    /\ SF_vars(Sequential("ticker") /\ Listing("ticker", FALSE))
    /\ \A t \in Ticks :
        /\ WF_vars(TickFail(t)) /\ WF_vars(TickLoad(t))
        /\ WF_vars(TickSkip(t)) /\ WF_vars(TickStore(t))
    /\ \A id \in Ids : WF_vars(RunStep(id)) /\ SF_vars(StartOf(id))

SpecDB == Init /\ [][NextDB]_vars /\ DBFairness

(* a run of the job has returned on a refused write *)
Refused(id, end) == \E r \in Live : r.g.ID = id /\ r.pc = "ret" /\ r.end = end

(* C39: a run whose status = running update or whose providerTaskId update *)
(* is refused returns with the job's row as it was; the return releases    *)
(* the guard entry; the job, still queued or running, gets a new run from  *)
(* a later tick; and after a refused providerTaskId update the job is      *)
(* submitted to the provider once more.                                    *)
C39_RefusedWriteIsRetried ==
    /\ [][\A r \in Live :
            (RunStartFails(r) \/ SubmitSaveFails(r)) =>
                /\ rows' = rows
                /\ \A r2 \in Begun(r.g.ID) : r2.pc = "ret" /\ r2.err]_vars
    /\ [][\A r \in Live :
            (r.pc = "ret" /\ r.end \in {"dberr", "saveerr"} /\ RunReturn(r)) =>
                r.g.ID \notin activeJobs']_vars
    /\ \A id \in Ids :
        (Refused(id, "dberr") \/ Refused(id, "saveerr")) ~>
            \/ \E r \in Live : r.g.ID = id /\ r.pc = "start"
            \/ id \notin DOMAIN rows
            \/ rows[id].status \notin Pending
    /\ \A id \in Ids :
        (Refused(id, "saveerr") /\ submits[id] = 1) ~>
            \/ submits[id] >= 2
            \/ id \notin DOMAIN rows
            \/ rows[id].status \notin Pending

(* a job submitted twice with no task id saved: the run of the second      *)
(* submission has returned on the refused update                           *)
C39_Witness ==
    /\ Refused(1, "saveerr")
    /\ submits[1] = 2
    /\ rows[1].status = "running"
    /\ rows[1].providerTaskId = NoTask

====
